---- MODULE Spec2Model ----
(***************************************************************************)
(* A state-machine model of reichat-server (src/src/index.ts): the Server  *)
(* class (roster, socket index, per-socket client binding, paint / stroke  *)
(* / pointer / chat pipeline, broker frames) and the Layer class.          *)
(*                                                                         *)
(* Every handler of the program is a function from the "world" (a record   *)
(* holding all of the program's state) to the world after the handler has  *)
(* run to completion; an action picks an input, applies the handler and    *)
(* commits the result.  Handlers written this way can call each other the  *)
(* way the code does (a forced disconnect runs the other socket's          *)
(* 'disconnect' listener inside the 'client' listener).                    *)
(*                                                                         *)
(* Numbers that arrive from a client are JavaScript numbers: they are      *)
(* modelled as NaN or a multiple of one half (field h, in half units), so  *)
(* that `>> 0`, Math.round and the range tests act on fractions as well as *)
(* on integers.  Strings are modelled by an identity and a length.         *)
(***************************************************************************)
EXTENDS Integers, Sequences, FiniteSets, TLC

(***************************** bounds **************************************)
\* Client records one server creates (calls of uuid.v1()).
MaxClients == 2
\* Paint events the environment sends in one behaviour.
MaxPaints == 2
\* Frames waiting in one server's subscriber connection.
MaxInbox == 3
\* The canvas of the pixel specification: width, height, number of layers.
CanvasW == 2
CanvasH == 2
LayerCount == 2
\* Times the ping interval of one server fires.
MaxRounds == 1
\* Records in a roster a provide frame is merged into, and in the frame.
MaxRoster == 3
MaxList == 2

(************************ program constants ********************************)
UuidLength == 36
MaxNameLength == 16
MaxChatLength == 256

(***************************** universe ************************************)
\* Server ids (uuid.v4() of each Server instance).
Servers == {1, 2}
\* Socket.IO sockets; a, b, c connect to server 1 and d to server 2.
Sockets == {"a", "b", "c", "d"}
NoSocket == "none"
HostOf(s) == IF s = "d" THEN 2 ELSE 1
SocketsOf(srv) == {s \in Sockets : HostOf(s) = srv}

\* EDataMode
DataModes == {"None", "FS", "Redis"}

\* A string: an identity and its length.
Str(id, len) == [id |-> id, len |-> len]
\* undefined / '' (falsy)
NoStr == Str(0, 0)
\* The per-socket variable `client` before any bind (null).
Null == Str(-1, 0)
\* uuid.v1(): the n-th uuid generated by server srv.
Uuid(srv, n) == Str(srv * 10 + n, UuidLength)
\* uuid.v4(): the pin generated with the n-th client of server srv.
Pin(srv, n) == srv * 100 + n
NoPin == 0

\* A JavaScript number received from a client: NaN, or h halves.
Num(h) == [nan |-> FALSE, h |-> h]
NaN == [nan |-> TRUE, h |-> 0]
FromInt(n) == Num(2 * n)
isNaN(v) == v.nan
\* v >> 0 and v << 0 (ToInt32): the fraction is dropped, towards zero.
\* (The 32-bit wrap is not modelled: every value used is far below 2^31.)
ToInt32(v) == IF v.h >= 0 THEN v.h \div 2 ELSE -((-v.h) \div 2)
\* Math.round: to the nearest integer, halves up.
MathRound(v) == (v.h + 1) \div 2
\* v < n, v > n and v <= n for a number v and an integer n.
NumLt(v, n) == v.h < 2 * n
NumGt(v, n) == v.h > 2 * n
NumLe(v, n) == v.h <= 2 * n

(***************************** state ***************************************)
VARIABLES
    config,      \* Server.config (frozen) and Server.dataMode, per server
    clients,     \* Server.resource.clients, per server: sequence of IClient
    mapClient,   \* Server.map.client, per server: uuid -> IClient object
    mapSocket,   \* Server.map.socket, per server: uuid -> socket
    sockState,   \* each socket: "new", "connected", "closing", "closed"
    sockClient,  \* the variable `client` of each socket's connection closure
    layers,      \* Layer.data of every layer, per server
    pngCache,    \* Layer.pngCache of every layer, per server
    parsing,     \* png parses in progress (sendPaint), per server
    immediates,  \* setImmediate callbacks queued by sendPaint, per server
    encodes,     \* png packs in progress (toPngBuffer / toPngStream), per server
    store,       \* the snapshot store: the file or broker key of each layer
    inbox,       \* frames the broker has yet to deliver to each subscriber
    faulted,     \* the process died of an uncaught exception, per server
    timers,      \* the timers of subscribeRedis that are pending, per server,
                 \* and the times the ping interval has fired
    boot,        \* the start of each server: `count` of syncLayers, how far the
                 \* load of each layer is, the 'ready' events emitted
    nPaints,     \* paint events sent so far
    last,        \* the handler that ran last and its input
    sent,        \* what the last handler emitted to sockets
    raised,      \* the Layer events ('change', 'update') the last handler raised
    pub          \* what the last handler published on the broker

vars == <<config, clients, mapClient, mapSocket, sockState, sockClient, layers,
          pngCache, parsing, immediates, encodes, store, inbox, faulted,
          timers, boot, nPaints, last, sent, raised, pub>>

\* The world: the whole state as one value.
World ==
    [config |-> config, clients |-> clients, mapClient |-> mapClient,
     mapSocket |-> mapSocket, sockState |-> sockState, sockClient |-> sockClient,
     layers |-> layers, pngCache |-> pngCache, parsing |-> parsing,
     immediates |-> immediates, encodes |-> encodes, store |-> store,
     inbox |-> inbox, faulted |-> faulted, timers |-> timers, boot |-> boot,
     sent |-> <<>>,
     raised |-> <<>>, pub |-> <<>>]

\* The state after a handler: the world it returns, with what it emitted.
Commit(w) ==
    /\ config' = w.config
    /\ clients' = w.clients
    /\ mapClient' = w.mapClient
    /\ mapSocket' = w.mapSocket
    /\ sockState' = w.sockState
    /\ sockClient' = w.sockClient
    /\ layers' = w.layers
    /\ pngCache' = w.pngCache
    /\ parsing' = w.parsing
    /\ immediates' = w.immediates
    /\ encodes' = w.encodes
    /\ store' = w.store
    /\ inbox' = w.inbox
    /\ faulted' = w.faulted
    /\ timers' = w.timers
    /\ boot' = w.boot
    /\ sent' = w.sent
    /\ raised' = w.raised
    /\ pub' = w.pub

(***************************** helpers *************************************)
\* A function without key k, and with key k set to v.
Without(f, k) == [x \in DOMAIN f \ {k} |-> f[x]]
With(f, k, v) == [x \in DOMAIN f \cup {k} |-> IF x = k THEN v ELSE f[x]]

\* s with element i removed.
RemoveAt(s, i) == [j \in 1..(Len(s) - 1) |-> IF j < i THEN s[j] ELSE s[j + 1]]

\* An uncaught exception (a TypeError on null or undefined) ends the process.
Fault(w, srv) == [w EXCEPT !.faulted[srv] = TRUE]

\* io.sockets.connected: the sockets of the namespace of server srv.
Connected(w, srv) ==
    {s \in SocketsOf(srv) : w.sockState[s] \in {"connected", "closing"}}

\* socket.emit(ev, body)
Emit(w, s, ev, body) ==
    [w EXCEPT !.sent = Append(@, [to |-> {s}, ev |-> ev, body |-> body])]
\* io.emit(ev, body)
IoEmit(w, srv, ev, body) ==
    [w EXCEPT !.sent = Append(@, [to |-> Connected(w, srv), ev |-> ev, body |-> body])]
\* socket.broadcast.emit(ev, body): everyone in the namespace but s.
BroadcastEmit(w, srv, s, ev, body) ==
    [w EXCEPT !.sent =
        Append(@, [to |-> Connected(w, srv) \ {s}, ev |-> ev, body |-> body])]

\* Server.publishRedis: the frame, stamped with this server's id, reaches the
\* subscriber connection of every server of the room, this one included.
publishRedis(w, srv, name, data) ==
    LET frame == [type |-> name, server |-> srv, data |-> data]
    IN  [w EXCEPT !.inbox = [r \in Servers |-> Append(@[r], frame)],
                  !.pub = Append(@, frame)]

\* client.isOnline = v, client.name = v, ... on the object map.client[u] of
\* server srv; resource.clients holds the same object.
SetClient(w, srv, u, rec) ==
    [w EXCEPT !.mapClient[srv] = With(@, u, rec),
              !.clients[srv] =
                  [i \in DOMAIN @ |->
                      IF @[i].uuid = u /\ @[i].server = srv THEN rec ELSE @[i]]]

\* A faulty variant of clientToDistributable: the record as it is held.
clientWhole(c) == c

\* Server.clientToDistributable
clientToDistributable(c) == [uuid |-> c.uuid, name |-> c.name, server |-> c.server]

IsOnline(c) == c.isOnline
\* Server.distributableClients
distributableClients(w, srv) ==
    LET online == SelectSeq(w.clients[srv], IsOnline)
    IN  [i \in DOMAIN online |-> clientToDistributable(online[i])]

\* A faulty variant of LocalClients: the whole roster.
LocalClientsAll(w, srv) == w.clients[srv]

\* this.resource.clients.filter((client) => client.server.id === this.id)
LocalClients(w, srv) ==
    LET Mine(c) == c.server = srv
    IN  SelectSeq(w.clients[srv], Mine)

\* A time: Date.now() of a server, a time a client supplied, or none.
ServerTime == [by |-> "server", t |-> 0]
ClientTime(t) == [by |-> "client", t |-> t]
NoTime == [by |-> "none", t |-> 0]

\* Lines 1034-1038: the frame of a message of this server.
systemPublish(w, srv, message, fromBroker) ==
    IF ~fromBroker /\ w.config[srv].dataMode = "Redis"
    THEN publishRedis(w, srv, "system", [body |-> message])
    ELSE w

\* Server.sendSystemMessage(message, server?)
sendSystemMessage(w, srv, message, fromBroker) ==
    IoEmit(systemPublish(w, srv, message, fromBroker), srv, "chat",
           [message |-> message, time |-> ServerTime])

(************************ socket: connection *******************************)
\* Server.ioConnectionListener, lines 693-705: the socket is in the namespace
\* and gets 'server' and 'config'.
ioConnectionListener(w, s) ==
    Emit(Emit([w EXCEPT !.sockState[s] = "connected"], s, "server", [id |-> HostOf(s)]),
         s, "config", w.config[HostOf(s)])

(************************ socket: disconnect *******************************)
\* publishRedis('provide', ...) of lines 715-720 and 780-785.
provideIfRedis(w, srv) ==
    IF w.config[srv].dataMode = "Redis"
    THEN publishRedis(w, srv, "provide",
                      [target |-> "Clients", body |-> LocalClients(w, srv)])
    ELSE w

\* this.io.emit('clients', this.distributableClients)
emitClients(w, srv) == IoEmit(w, srv, "clients", distributableClients(w, srv))

\* this.sendSystemMessage(util.format('! %s has ...', client.name))
nameMessage(w, srv, u, text) ==
    sendSystemMessage(w, srv, [text |-> text, name |-> w.mapClient[srv][u].name], FALSE)

\* A faulty variant of markOffline: the index entry goes, the flag stays.
markOfflineKeepsFlag(w, s) ==
    IF w.sockClient[s] # Null /\ w.sockClient[s] \in DOMAIN w.mapSocket[HostOf(s)]
    THEN [w EXCEPT !.mapSocket[HostOf(s)] = Without(@, w.sockClient[s])]
    ELSE w

\* Lines 709-713 and 734-739: whatever socket is indexed under the uuid of
\* this socket's client is removed from the index, and the client goes offline.
markOffline(w, s) ==
    LET srv == HostOf(s)
        u == w.sockClient[s]
    IN  IF u # Null /\ u.len > 0 /\ u \in DOMAIN w.mapSocket[srv]
        THEN SetClient([w EXCEPT !.mapSocket[srv] = Without(@, u)], srv, u,
                       [w.mapClient[srv][u] EXCEPT !.isOnline = FALSE])
        ELSE w

\* The listener of socket.once('disconnect'), lines 707-730.
disconnectListener(w, s) ==
    IF w.sockClient[s] = Null THEN w
    ELSE nameMessage(
             emitClients(provideIfRedis(markOffline(w, s), HostOf(s)), HostOf(s)),
             HostOf(s), w.sockClient[s], "has left.")

\* The socket leaves the namespace, then its 'disconnect' listener runs.
onclose(w, s) == disconnectListener([w EXCEPT !.sockState[s] = "closed"], s)

\* socket.disconnect(true).  On an open connection the close, and with it the
\* 'disconnect' listener, runs before the call returns; a connection that is
\* already closing is left alone and its 'disconnect' comes when it has closed.
forceDisconnect(w, s) ==
    IF w.sockState[s] = "connected" THEN onclose(w, s) ELSE w

(************************ socket: client ***********************************)
\* A faulty variant of Known: the pin is not compared.
KnownIgnoresPin(w, srv, newClient) ==
    /\ newClient.uuid.len > 0
    /\ newClient.uuid \in DOMAIN w.mapClient[srv]

\* Line 749: the uuid names a record of this server and the pin is its pin.
Known(w, srv, newClient) ==
    /\ newClient.uuid.len > 0
    /\ newClient.uuid \in DOMAIN w.mapClient[srv]
    /\ w.mapClient[srv][newClient.uuid].pin = newClient.pin

\* Lines 750-755: the record is reused and the socket indexed under it kicked.
reuse(w, srv, u) ==
    IF u \in DOMAIN w.mapSocket[srv]
    THEN [forceDisconnect(w, w.mapSocket[srv][u]) EXCEPT !.mapSocket[srv] = Without(@, u)]
    ELSE w

\* Lines 757-765: a new record, in the map and in the roster.
create(w, srv, n) ==
    LET fresh == [uuid |-> Uuid(srv, n), pin |-> Pin(srv, n), server |-> srv,
                  name |-> NoStr, remoteAddr |-> NoSocket, isOnline |-> FALSE]
    IN  [w EXCEPT !.mapClient[srv] = With(@, fresh.uuid, fresh),
                  !.clients[srv] = Append(@, fresh)]

\* Lines 768-772: name, address and online flag of the record, the index,
\* and the variable `client` of the socket.
attach(w, s, u, name) ==
    [SetClient(w, HostOf(s), u,
               [w.mapClient[HostOf(s)][u] EXCEPT !.name = name,
                                                  !.remoteAddr = s,
                                                  !.isOnline = TRUE])
        EXCEPT !.sockClient[s] = u,
               !.mapSocket[HostOf(s)] = With(@, u, s)]

\* Lines 774-778: socket.emit('client', {uuid, name, pin})
replyClient(w, s, u) ==
    LET rec == w.mapClient[HostOf(s)][u]
    IN  Emit(w, s, "client", [uuid |-> rec.uuid, name |-> rec.name, pin |-> rec.pin])

\* Lines 768-791, for the record with uuid u.
join(w, s, u, name) ==
    nameMessage(
        emitClients(
            provideIfRedis(replyClient(attach(w, s, u, name), s, u), HostOf(s)),
            HostOf(s)),
        HostOf(s), u, "has join.")

\* Lines 741-791: the validation and the bind.
bind(w, s, newClient) ==
    IF newClient.uuid.len > 0 /\ newClient.uuid.len # UuidLength THEN w
    ELSE IF newClient.name.len = 0 \/ newClient.name.len > MaxNameLength THEN w
    ELSE IF Known(w, HostOf(s), newClient)
         THEN join(reuse(w, HostOf(s), newClient.uuid), s, newClient.uuid, newClient.name)
         ELSE LET n == Cardinality(DOMAIN w.mapClient[HostOf(s)]) + 1
              IN  join(create(w, HostOf(s), n), s, Uuid(HostOf(s), n), newClient.name)

\* The listener of socket.on('client'), lines 732-792.
clientListener(w, s, newClient) == bind(markOffline(w, s), s, newClient)

(***************************** images **************************************)
Min(a, b) == IF a < b THEN a ELSE b

\* A decoded image (png.Image): width, height and RGBA bytes, 4 per pixel,
\* rows first; data is indexed from 0 like a Buffer.
Image(width, height, data) == [width |-> width, height |-> height, data |-> data]
NoImage == Image(0, 0, <<>>)
\* A Buffer that holds the png encoding of img; a Buffer that holds no png;
\* a value that is no Buffer (null).
PngOf(img) == [isBuffer |-> TRUE, ok |-> TRUE, img |-> img]
BadPng == [isBuffer |-> TRUE, ok |-> FALSE, img |-> NoImage]
NoBuffer == [isBuffer |-> FALSE, ok |-> FALSE, img |-> NoImage]

\* new Layer(width, height, n): data.fill(0)
BlankData(width, height) == [k \in 0..(width * height * 4 - 1) |-> 0]

\* A faulty variant of copyPixel: red, green and blue only, alpha is kept.
copyPixelRGB(data, img, i, j) ==
    [k \in DOMAIN data |->
        IF k \in i..(i + 2)
        THEN (IF (j + (k - i)) \in DOMAIN img.data THEN img.data[j + (k - i)] ELSE 0)
        ELSE data[k]]

\* Lines 876-879: the four bytes of one pixel.
copyPixel(data, img, i, j) ==
    [k \in DOMAIN data |->
        IF k \in i..(i + 3)
        THEN (IF (j + (k - i)) \in DOMAIN img.data THEN img.data[j + (k - i)] ELSE 0)
        ELSE data[k]]

\* Lines 872-880: for (x = px; x < pw; x++)
RECURSIVE copyRow(_, _, _, _, _, _, _, _)
copyRow(data, img, w, px, py, pw, y, x) ==
    IF x >= pw THEN data
    ELSE copyRow(copyPixel(data, img, (w * y + x) * 4,
                           (img.width * (y - py) + (x - px)) * 4),
                 img, w, px, py, pw, y, x + 1)

\* Lines 871-881: for (y = py; y < ph; y++)
RECURSIVE copyRows(_, _, _, _, _, _, _, _)
copyRows(data, img, w, px, py, pw, ph, y) ==
    IF y >= ph THEN data
    ELSE copyRows(copyRow(data, img, w, px, py, pw, y, px),
                  img, w, px, py, pw, ph, y + 1)

(***************************** Layer ***************************************)
\* The key of the snapshot store a server writes: its own files (FS), or the
\* keys of the broker, which the servers of a room share (Redis).
StoreOf(w, srv) == IF w.config[srv].dataMode = "Redis" THEN 0 ELSE srv

\* Layer.toPngBuffer / Layer.toPngStream up to the start of the pack: with no
\* cache the current data is copied into a new image whose pack then runs;
\* with a cache the cached bytes go to the callback (the store) at once.
toPng(w, srv, n) ==
    IF w.pngCache[srv][n] = NoBuffer
    THEN [w EXCEPT !.encodes[srv] =
             Append(@, [layer |-> n, data |-> w.layers[srv][n], to |-> "store"])]
    ELSE [w EXCEPT !.store[StoreOf(w, srv)][n] = w.pngCache[srv][n]]

\* layer.emit('update'): the listener of the Layer constructor.
emitUpdate(w, srv, n) ==
    [w EXCEPT !.pngCache[srv][n] = NoBuffer,
              !.raised = Append(@, [layer |-> n, ev |-> "update"])]

\* layer.emit('change'): the listener of the Layer constructor, then the one
\* of initFileSystem / initRedisClients, whose process.nextTick callback runs
\* before any other event is handled.
emitChange(w, srv, n) ==
    LET w1 == [w EXCEPT !.pngCache[srv][n] = NoBuffer,
                        !.raised = Append(@, [layer |-> n, ev |-> "change"])]
    IN  IF w.config[srv].dataMode = "None" THEN w1 ELSE toPng(w1, srv, n)

\* The 'end' event of a pack: the encoding of the copied data becomes the
\* cache and is handed to the callback, which writes it to the store.
packEnd(w, srv, i) ==
    LET e == w.encodes[srv][i]
        buffer == PngOf(Image(w.config[srv].canvasWidth,
                              w.config[srv].canvasHeight, e.data))
    IN  [w EXCEPT !.encodes[srv] = RemoveAt(@, i),
                  !.pngCache[srv][e.layer] = buffer,
                  !.store[StoreOf(w, srv)][e.layer] =
                      IF e.to = "store" THEN buffer ELSE @]

(***************************** clients *************************************)
\* The `client` argument of sendPaint, sendStroke, sendPointer and sendChat:
\* the object bound to the sending socket (by reference: its fields are read
\* when they are used), null, or a record decoded from a broker frame.
NoRecord == [uuid |-> Null, pin |-> NoPin, server |-> 0, name |-> NoStr,
             remoteAddr |-> NoSocket, isOnline |-> FALSE]
LocalRef(u) == [ref |-> TRUE, uuid |-> u, rec |-> NoRecord]
Decoded(rec) == [ref |-> FALSE, uuid |-> rec.uuid, rec |-> rec]
IsNullClient(c) == c.ref /\ c.uuid = Null
Deref(w, srv, c) == IF c.ref THEN w.mapClient[srv][c.uuid] ELSE c.rec

(***************************** paint ***************************************)
\* Server.sendPaint up to the call of parse, lines 832-854.  A parse in
\* progress holds the arguments of sendPaint (paint with x and y already
\* converted); `origin` and `input`, the socket the event came from and the
\* event as it arrived, are kept for stating properties and never read.
sendPaint(w, srv, client, paint, origin) ==
    IF \/ isNaN(paint.layerNumber)
       \/ NumLt(paint.layerNumber, 0)
       \/ ~NumLt(paint.layerNumber, w.config[srv].layerCount)
    THEN w
    ELSE IF isNaN(paint.x) \/ isNaN(paint.y) THEN w
    ELSE IF paint.mode # "normal" /\ paint.mode # "erase" THEN w
    ELSE IF ~paint.data.isBuffer THEN w
    ELSE IF ToInt32(paint.x) < 0 \/ ToInt32(paint.y) < 0 THEN w
    ELSE [w EXCEPT !.parsing[srv] =
             Append(@, [client |-> client, origin |-> origin, input |-> paint,
                        paint |-> [paint EXCEPT !.x = ToInt32(paint.x),
                                                !.y = ToInt32(paint.y)]])]

\* Lines 892-897: the fan-out, to all but the socket indexed under the
\* sender's uuid, which gets 'painted' from a setImmediate callback; to all
\* when no socket is indexed under it.
paintFanout(w, srv, job, c) ==
    LET paint == job.paint
        ioMessage == [client |-> clientToDistributable(c),
                      layerNumber |-> paint.layerNumber, mode |-> paint.mode,
                      x |-> paint.x, y |-> paint.y, data |-> paint.data]
    IN  IF c.uuid \in DOMAIN w.mapSocket[srv]
        THEN [BroadcastEmit(w, srv, w.mapSocket[srv][c.uuid], "paint", ioMessage)
                EXCEPT !.immediates[srv] =
                           Append(@, [uuid |-> c.uuid, origin |-> job.origin])]
        ELSE IoEmit(w, srv, "paint", ioMessage)

\* Lines 899-906: the frame of a paint of one of this server's clients.
paintPublish(w, srv, job, c) ==
    IF c.server = srv /\ w.config[srv].dataMode = "Redis"
    THEN publishRedis(w, srv, "paint", [client |-> c, body |-> job.paint])
    ELSE w

\* A faulty variant of paintSignal: 'change' whoever hosts the client.
paintSignalChange(w, srv, job, c) ==
    IF job.paint.layerNumber.h % 2 # 0 THEN Fault(w, srv)
    ELSE [w EXCEPT !.pngCache[srv][job.paint.layerNumber.h \div 2] = NoBuffer,
                   !.raised = Append(@, [layer |-> job.paint.layerNumber.h \div 2,
                                         ev |-> "change"]),
                   !.encodes[srv] =
                       Append(@, [layer |-> job.paint.layerNumber.h \div 2,
                                  data |-> w.layers[srv][job.paint.layerNumber.h \div 2],
                                  to |-> "store"])]

\* Lines 907-909: layer.emit('change') or layer.emit('update'); layer is
\* undefined when the layer number is a fraction.
paintSignal(w, srv, job, c) ==
    IF job.paint.layerNumber.h % 2 # 0 THEN Fault(w, srv)
    ELSE IF c.server = srv THEN emitChange(w, srv, job.paint.layerNumber.h \div 2)
    ELSE emitUpdate(w, srv, job.paint.layerNumber.h \div 2)

\* Lines 883-910: clientToDistributable(client) throws on null.
paintAnnounce(w, srv, job) ==
    IF IsNullClient(job.client) THEN Fault(w, srv)
    ELSE paintSignal(
             paintPublish(
                 paintFanout(w, srv, job, Deref(w, srv, job.client)),
                 srv, job, Deref(w, srv, job.client)),
             srv, job, Deref(w, srv, job.client))

\* Lines 860-881: the pixels of the patch that fall on the canvas are copied
\* into the layer.
paintPixels(w, srv, paint) ==
    LET img == paint.data.img
        cw == w.config[srv].canvasWidth
        ch == w.config[srv].canvasHeight
        pw == Min(paint.x + img.width, cw)
        ph == Min(paint.y + img.height, ch)
    IN  [w EXCEPT !.layers[srv][paint.layerNumber.h \div 2] =
            copyRows(@, img, cw, paint.x, paint.y, pw, ph, paint.y)]

\* Whether the loops of lines 871-881 run at all.
paintTouches(w, srv, paint) ==
    /\ paint.x < Min(paint.x + paint.data.img.width, w.config[srv].canvasWidth)
    /\ paint.y < Min(paint.y + paint.data.img.height, w.config[srv].canvasHeight)

\* The callback of parse, lines 854-911, once the parse is off the list.
paintApply(w, srv, job) ==
    IF ~job.paint.data.ok THEN w
    ELSE IF job.paint.layerNumber.h % 2 # 0
         THEN (IF paintTouches(w, srv, job.paint) THEN Fault(w, srv)
               ELSE paintAnnounce(w, srv, job))
         ELSE paintAnnounce(paintPixels(w, srv, job.paint), srv, job)

\* The callback of parse for the i-th parse in progress.
paintParsed(w, srv, i) ==
    paintApply([w EXCEPT !.parsing[srv] = RemoveAt(@, i)], srv, w.parsing[srv][i])

\* Line 894: the setImmediate callback, this.map.socket[client.uuid].emit('painted').
paintedCallback(w, srv, cb) ==
    IF cb.uuid \in DOMAIN w.mapSocket[srv]
    THEN Emit(w, w.mapSocket[srv][cb.uuid], "painted", <<>>)
    ELSE Fault(w, srv)

\* The oldest setImmediate callback runs.
painted(w, srv) ==
    paintedCallback([w EXCEPT !.immediates[srv] = Tail(@)], srv, Head(w.immediates[srv]))

(***************************** canvas **************************************)
\* A faulty variant of blend: the fraction is cut off.
blendFloor(dst, src, a) == ((255 - a) * dst + a * src) \div 255

\* Lines 823-825: Math.round(((255 - a) / 255 * dst) + (a / 255 * src)) for
\* bytes. The exact value is a multiple of 1/255, so it is never half way
\* between two integers and the rounding error of the floating point terms
\* cannot change the side the sum falls on.
blend(dst, src, a) == (2 * ((255 - a) * dst + a * src) + 255) \div 510

\* Lines 819-827: one layer laid over the image; the 4th byte of every pixel
\* of the image is not written.
canvasLayer(data, layer) ==
    [k \in DOMAIN data |->
        IF k % 4 = 3 THEN data[k]
        ELSE blend(data[k], layer[k], layer[k - (k % 4) + 3])]

\* Line 818: the layers from the i-th on, in the order of the list.
RECURSIVE canvasLayers(_, _, _)
canvasLayers(data, list, i) ==
    IF i \notin DOMAIN list THEN data
    ELSE canvasLayers(canvasLayer(data, list[i]), list, i + 1)

\* Server.canvasToPng: a new image, filled with 255, under the layers.
canvasToPng(w, srv) ==
    PngOf(Image(w.config[srv].canvasWidth, w.config[srv].canvasHeight,
                canvasLayers([k \in 0..(w.config[srv].canvasWidth *
                                          w.config[srv].canvasHeight * 4 - 1) |-> 255],
                             w.layers[srv], 0)))

(************************ stroke, pointer, chat *****************************)
\* A point of a stroke: null, or [x, y, pressure] with perhaps a 4th element.
Point(x, y, p, extra) == [nil |-> FALSE, x |-> x, y |-> y, p |-> p, extra |-> extra]
NilPoint == [nil |-> TRUE, x |-> NaN, y |-> NaN, p |-> NaN, extra |-> FALSE]

\* Lines 924-932: the tests one point must pass.
pointOk(w, srv, pt) ==
    /\ ~(pt.nil \/ isNaN(pt.x) \/ isNaN(pt.y) \/ isNaN(pt.p))
    /\ ~(NumLt(pt.x, 0) \/ NumLt(pt.y, 0) \/ NumLe(pt.p, 0))
    /\ ~(NumGt(pt.x, w.config[srv].canvasWidth) \/ NumGt(pt.y, w.config[srv].canvasHeight))

\* Lines 933-938: the 4th element goes, x and y are rounded, pressure << 0.
pointOut(pt) == [x |-> MathRound(pt.x), y |-> MathRound(pt.y), p |-> ToInt32(pt.p)]

\* The fan-out of sendStroke and sendPointer (volatile): to all but the
\* socket indexed under the sender's uuid, or to all.
hintFanout(w, srv, c, ev, ioMessage) ==
    IF c.uuid \in DOMAIN w.mapSocket[srv]
    THEN BroadcastEmit(w, srv, w.mapSocket[srv][c.uuid], ev, ioMessage)
    ELSE IoEmit(w, srv, ev, ioMessage)

\* A faulty variant of hintPublish: a frame whoever hosts the client.
hintPublishAlways(w, srv, c, ev, body) ==
    publishRedis(w, srv, ev, [client |-> c, body |-> body])

\* The publish of sendStroke and sendPointer.
hintPublish(w, srv, c, ev, body) ==
    IF c.server = srv /\ w.config[srv].dataMode = "Redis"
    THEN publishRedis(w, srv, ev, [client |-> c, body |-> body])
    ELSE w

\* Lines 941-961, for the converted points.
strokeOut(w, srv, c, points) ==
    hintFanout(hintPublish(w, srv, c, "stroke", [points |-> points]), srv, c, "stroke",
               [client |-> clientToDistributable(c), points |-> points])

\* Server.sendStroke
sendStroke(w, srv, client, stroke) ==
    IF ~stroke.isArray THEN w
    ELSE IF \E k \in DOMAIN stroke.points : ~pointOk(w, srv, stroke.points[k]) THEN w
    ELSE IF IsNullClient(client) THEN Fault(w, srv)
    ELSE strokeOut(w, srv, Deref(w, srv, client),
                   [k \in DOMAIN stroke.points |-> pointOut(stroke.points[k])])

\* Lines 977-998, for the converted position.
pointerOut(w, srv, c, x, y) ==
    hintFanout(hintPublish(w, srv, c, "pointer", [x |-> x, y |-> y]), srv, c, "pointer",
               [client |-> clientToDistributable(c), x |-> x, y |-> y])

\* Server.sendPointer
sendPointer(w, srv, client, pointer) ==
    IF isNaN(pointer.x) \/ isNaN(pointer.y) THEN w
    ELSE IF \/ ToInt32(pointer.x) < -1
            \/ ToInt32(pointer.y) < -1
            \/ ToInt32(pointer.x) > w.config[srv].canvasWidth
            \/ ToInt32(pointer.y) > w.config[srv].canvasHeight
         THEN w
    ELSE IF IsNullClient(client) THEN Fault(w, srv)
    ELSE pointerOut(w, srv, Deref(w, srv, client), ToInt32(pointer.x), ToInt32(pointer.y))

\* A chat message: whether it is a string, whether trim() leaves nothing, its
\* length.
Message(id, len, blank) == [isString |-> TRUE, blank |-> blank, text |-> Str(id, len)]
NoMessage == [isString |-> FALSE, blank |-> FALSE, text |-> NoStr]

\* A faulty variant of chatPublish: a frame whoever hosts the client.
chatPublishAlways(w, srv, c, chat) ==
    publishRedis(w, srv, "chat",
        [client |-> c, body |-> [message |-> chat.message, time |-> ServerTime]])

\* Lines 1011-1019: the frame of a chat of one of this server's clients.
chatPublish(w, srv, c, chat) ==
    IF w.config[srv].dataMode = "Redis" /\ c.server = srv
    THEN publishRedis(w, srv, "chat",
             [client |-> c, body |-> [message |-> chat.message, time |-> ServerTime]])
    ELSE w

\* Line 1024: chat.time || Date.now(); a time of 0 counts as none.
chatTime(chat) ==
    IF chat.time.by = "none" \/ (chat.time.by = "client" /\ chat.time.t = 0)
    THEN ServerTime
    ELSE chat.time

\* Lines 1011-1027
chatOut(w, srv, c, chat) ==
    IoEmit(chatPublish(w, srv, c, chat), srv, "chat",
           [client |-> clientToDistributable(c), message |-> chat.message,
            time |-> chatTime(chat)])

\* Server.sendChat
sendChat(w, srv, client, chat) ==
    IF ~chat.message.isString \/ chat.message.blank THEN w
    ELSE IF chat.message.text.len > MaxChatLength THEN w
    ELSE IF IsNullClient(client) THEN Fault(w, srv)
    ELSE chatOut(w, srv, Deref(w, srv, client), chat)

(***************************** broker **************************************)
\* A faulty variant of updateClientsByServer: the old records of the server stay.
updateClientsAppends(w, srv, server, list) ==
    LET Theirs(c) == c.server = server
    IN  [w EXCEPT !.clients[srv] = @ \o SelectSeq(list, Theirs)]

\* A faulty variant of updateClientsByServer: the whole list is pushed.
updateClientsUnfiltered(w, srv, server, list) ==
    LET Others(c) == c.server # server
    IN  [w EXCEPT !.clients[srv] = SelectSeq(@, Others) \o list]

\* Server.updateClientsByServer
updateClientsByServer(w, srv, server, list) ==
    LET Others(c) == c.server # server
        Theirs(c) == c.server = server
    IN  [w EXCEPT !.clients[srv] = SelectSeq(@, Others) \o SelectSeq(list, Theirs)]

\* Server.redisMessageListener after the loopback test, lines 554-592.
frameListener(w, srv, frame) ==
    CASE frame.type = "ping" -> publishRedis(w, srv, "pong", <<>>)
      [] frame.type = "collect" ->
           IF frame.data.target = "Clients"
           THEN publishRedis(w, srv, "provide",
                    [target |-> "Clients", body |-> LocalClients(w, srv)])
           ELSE w
      [] frame.type = "provide" ->
           IF frame.data.target = "Clients"
           THEN emitClients(
                    updateClientsByServer(w, srv, frame.server, frame.data.body), srv)
           ELSE w
      [] frame.type = "system" ->
           sendSystemMessage(w, srv, frame.data.body, TRUE)
      [] frame.type = "chat" ->
           sendChat(w, srv, Decoded(frame.data.client), frame.data.body)
      [] frame.type = "paint" ->
           sendPaint(w, srv, Decoded(frame.data.client),
                     [frame.data.body EXCEPT !.x = FromInt(@), !.y = FromInt(@)],
                     NoSocket)
      [] frame.type = "stroke" ->
           sendStroke(w, srv, Decoded(frame.data.client),
               [isArray |-> TRUE,
                points |-> [k \in DOMAIN frame.data.body.points |->
                   LET q == frame.data.body.points[k]
                   IN  Point(FromInt(q.x), FromInt(q.y), FromInt(q.p), FALSE)]])
      [] frame.type = "pointer" ->
           sendPointer(w, srv, Decoded(frame.data.client),
               [x |-> FromInt(frame.data.body.x), y |-> FromInt(frame.data.body.y)])
      [] OTHER -> w

\* A faulty variant of redisMessageListener: no loopback test.
redisMessageListenerOwnToo(w, srv, frame) == frameListener(w, srv, frame)

\* Server.redisMessageListener: a frame of this server is dropped.
redisMessageListener(w, srv, frame) ==
    IF frame.server = srv THEN w ELSE frameListener(w, srv, frame)

\* A faulty variant of pongMessageListener: pongs are not counted.
pongIgnored(w, srv, frame) == w

\* pongMessageListener of the ping interval, lines 483-493, registered from
\* the tick of the interval to the time-out of its round.
pongMessageListener(w, srv, frame) ==
    IF w.timers[srv].timeout /\ frame.type = "pong"
    THEN [w EXCEPT !.timers[srv].otherServers = @ \ {frame.server}]
    ELSE w

\* The 'message' listeners of the subscriber connection, in the order they
\* were registered, for the oldest frame waiting for server srv.
deliver(w, srv) ==
    pongMessageListener(
        redisMessageListener([w EXCEPT !.inbox[srv] = Tail(@)], srv, Head(w.inbox[srv])),
        srv, Head(w.inbox[srv]))

(************************ broker: timers ***********************************)
\* The server ids of the roster that are not this server's, lines 471-477.
otherServersOf(w, srv) == {w.clients[srv][i].server : i \in DOMAIN w.clients[srv]} \ {srv}

\* The callback of setInterval(..., 10000), lines 469-516: with a remote
\* record in the roster a round opens (the pong listener is registered, the
\* ping is due in 1 s and the time-out in 6 s).
pingTick(w, srv) ==
    IF otherServersOf(w, srv) = {} THEN [w EXCEPT !.timers[srv].ticks = @ + 1]
    ELSE [w EXCEPT !.timers[srv].ticks = @ + 1,
                   !.timers[srv].ping = TRUE,
                   !.timers[srv].timeout = TRUE,
                   !.timers[srv].otherServers = otherServersOf(w, srv)]

\* Line 515: setTimeout(() => this.publishRedis('ping'), 1000)
pingSend(w, srv) == publishRedis([w EXCEPT !.timers[srv].ping = FALSE], srv, "ping", <<>>)

\* A faulty variant of prune: the records of the silent servers stay.
pruneKeepsAll(w, srv) == emitClients(w, srv)

\* A faulty variant of prune: every record leaves the roster.
pruneDropsAll(w, srv) == emitClients([w EXCEPT !.clients[srv] = <<>>], srv)

\* Lines 505-509: the records of the servers that did not answer leave the
\* roster, and the roster goes to every socket.
prune(w, srv) ==
    LET Heard(c) == c.server \notin w.timers[srv].otherServers
    IN  emitClients([w EXCEPT !.clients[srv] = SelectSeq(@, Heard)], srv)

\* The callback of setTimeout(..., 6000), lines 497-512.
pingTimeout(w, srv) ==
    IF w.timers[srv].otherServers = {}
    THEN [w EXCEPT !.timers[srv].timeout = FALSE]
    ELSE [prune(w, srv) EXCEPT !.timers[srv].timeout = FALSE,
                               !.timers[srv].otherServers = {}]

\* Line 519: setTimeout(() => this.publishRedis('collect', ...), 3000)
collect(w, srv) ==
    publishRedis([w EXCEPT !.timers[srv].collect = FALSE], srv, "collect",
                 [target |-> "Clients"])

(***************************** startup *************************************)
\* A faulty variant of loadDone: 'ready' at every call.
loadDoneEager(w, srv) ==
    [w EXCEPT !.boot[srv].count = @ - 1, !.boot[srv].ready = @ + 1]

\* Lines 340-346: the callback that syncLayers hands to loadLayer.
loadDone(w, srv) ==
    IF w.boot[srv].count - 1 = 0
    THEN [w EXCEPT !.boot[srv].count = @ - 1, !.boot[srv].ready = @ + 1]
    ELSE [w EXCEPT !.boot[srv].count = @ - 1]

\* Lines 385-389, 405-409: img.end() with nothing written, in a try block. The
\* image library decides whether the call throws; when it does, done is left
\* to setImmediate, when it does not, nothing else happens.
endEmpty(w, srv, n) ==
    [w EXCEPT !.boot[srv].load[n] = IF w.boot[srv].endThrows THEN "immediate" ELSE "ended"]

\* Server.loadLayer up to its return: what is left to happen for layer n.
loadLayer(w, srv, n) ==
    CASE w.config[srv].dataMode = "None" -> [w EXCEPT !.boot[srv].load[n] = "immediate"]
      [] w.config[srv].dataMode = "FS" ->
           IF w.store[srv][n] # NoBuffer
           THEN [w EXCEPT !.boot[srv].load[n] = "parse"]
           ELSE endEmpty(w, srv, n)
      [] OTHER -> [w EXCEPT !.boot[srv].load[n] = "get"]

\* Line 337: the layers in the order of the list.
RECURSIVE loadLayers(_, _, _)
loadLayers(w, srv, n) ==
    IF n >= w.config[srv].layerCount THEN w
    ELSE loadLayers(loadLayer(w, srv, n), srv, n + 1)

\* Server.syncLayers, called at the end of the constructor.
syncLayers(w, srv) ==
    loadLayers([w EXCEPT !.boot[srv].count = w.config[srv].layerCount,
                         !.boot[srv].ready = 0], srv, 0)

\* Lines 393-411: the broker answers the get of layer n, with an error or
\* with what the key holds. On an error img.end() is called outside any try.
loadGot(w, srv, n, err) ==
    IF err
    THEN (IF w.boot[srv].endThrows
          THEN Fault([w EXCEPT !.boot[srv].load[n] = "failed"], srv)
          ELSE [w EXCEPT !.boot[srv].load[n] = "failed"])
    ELSE IF w.store[0][n] # NoBuffer
         THEN [w EXCEPT !.boot[srv].load[n] = "parse"]
         ELSE endEmpty(w, srv, n)

\* Lines 367-369: every connected socket is disconnected.
RECURSIVE disconnectAll(_, _)
disconnectAll(w, ss) ==
    IF ss = {} THEN w
    ELSE LET s == CHOOSE x \in ss : TRUE
         IN  disconnectAll(forceDisconnect(w, s), ss \ {s})

\* Lines 357-374: the stored image of layer n is parsed.
loadParsed(w, srv, n) ==
    LET img == w.store[StoreOf(w, srv)][n].img
    IN  IF \/ img.width # w.config[srv].canvasWidth
           \/ img.height # w.config[srv].canvasHeight
        THEN [w EXCEPT !.boot[srv].load[n] = "discarded"]
        ELSE loadDone(
                 disconnectAll(
                     emitUpdate([w EXCEPT !.layers[srv][n] = img.data,
                                          !.boot[srv].load[n] = "loaded"], srv, n),
                     {s \in Sockets : HostOf(s) = srv}),
                 srv)

\* Lines 353, 388, 408: the setImmediate callback of layer n, which is done.
loadImmediate(w, srv, n) == loadDone([w EXCEPT !.boot[srv].load[n] = "absent"], srv)

(***************************** actions *************************************)
Alive(srv) == ~faulted[srv]

\* The world once every server, all with configuration cfg, has started over
\* an empty store and has emitted 'ready'.
Fresh(cfg) ==
    [config |-> [srv \in Servers |-> cfg],
     clients |-> [srv \in Servers |-> <<>>],
     mapClient |-> [srv \in Servers |-> <<>>],
     mapSocket |-> [srv \in Servers |-> <<>>],
     sockState |-> [s \in Sockets |-> "new"],
     sockClient |-> [s \in Sockets |-> Null],
     layers |-> [srv \in Servers |->
                    [n \in 0..(cfg.layerCount - 1) |->
                        BlankData(cfg.canvasWidth, cfg.canvasHeight)]],
     pngCache |-> [srv \in Servers |-> [n \in 0..(cfg.layerCount - 1) |-> NoBuffer]],
     parsing |-> [srv \in Servers |-> <<>>],
     immediates |-> [srv \in Servers |-> <<>>],
     encodes |-> [srv \in Servers |-> <<>>],
     store |-> [k \in {0} \cup Servers |-> [n \in 0..(cfg.layerCount - 1) |-> NoBuffer]],
     inbox |-> [srv \in Servers |-> <<>>],
     faulted |-> [srv \in Servers |-> FALSE],
     timers |-> [srv \in Servers |->
                    [collect |-> cfg.dataMode = "Redis", ping |-> FALSE,
                     timeout |-> FALSE, otherServers |-> {}, ticks |-> 0]],
     boot |-> [srv \in Servers |->
                  [count |-> 0, ready |-> 1, endThrows |-> TRUE,
                   load |-> [n \in 0..(cfg.layerCount - 1) |-> "absent"]]],
     sent |-> <<>>, raised |-> <<>>, pub |-> <<>>]

\* The first state of a behaviour that starts in world w.
StartIn(w) ==
    /\ config = w.config
    /\ clients = w.clients
    /\ mapClient = w.mapClient
    /\ mapSocket = w.mapSocket
    /\ sockState = w.sockState
    /\ sockClient = w.sockClient
    /\ layers = w.layers
    /\ pngCache = w.pngCache
    /\ parsing = w.parsing
    /\ immediates = w.immediates
    /\ encodes = w.encodes
    /\ store = w.store
    /\ inbox = w.inbox
    /\ faulted = w.faulted
    /\ timers = w.timers
    /\ boot = w.boot
    /\ nPaints = 0
    /\ last = [op |-> "init"]
    /\ sent = <<>>
    /\ raised = <<>>
    /\ pub = <<>>

\* The state after construction of every server, all with configuration cfg.
InitWith(cfg) == StartIn(Fresh(cfg))

\* A handler that publishes needs room in the subscriber connections.
Room(w) == \A srv \in Servers : Len(w.inbox[srv]) <= MaxInbox

\* A socket connects.
Connect(s) ==
    /\ sockState[s] = "new"
    /\ Alive(HostOf(s))
    /\ Commit(ioConnectionListener(World, s))
    /\ last' = [op |-> "connect", socket |-> s]
    /\ UNCHANGED nPaints

\* The connection of socket s starts to close: nothing more arrives on it,
\* and its 'disconnect' event is still to come.
BeginClose(s) ==
    /\ sockState[s] = "connected"
    /\ Alive(HostOf(s))
    /\ Commit([World EXCEPT !.sockState[s] = "closing"])
    /\ last' = [op |-> "closing", socket |-> s]
    /\ UNCHANGED nPaints

\* The 'disconnect' event of socket s.
Disconnect(s) ==
    /\ sockState[s] \in {"connected", "closing"}
    /\ Alive(HostOf(s))
    /\ LET w == onclose(World, s) IN Room(w) /\ Commit(w)
    /\ last' = [op |-> "disconnect", socket |-> s, client |-> sockClient[s],
                was |-> sockState[s]]
    /\ UNCHANGED nPaints

\* Whether this 'client' event makes the server create a record.
Creates(s, newClient) ==
    /\ ~(newClient.uuid.len > 0 /\ newClient.uuid.len # UuidLength)
    /\ ~(newClient.name.len = 0 \/ newClient.name.len > MaxNameLength)
    /\ ~(/\ newClient.uuid.len > 0
         /\ newClient.uuid \in DOMAIN mapClient[HostOf(s)]
         /\ mapClient[HostOf(s)][newClient.uuid].pin = newClient.pin)

\* A 'client' event on socket s.
ClientEvent(s, newClient) ==
    /\ sockState[s] = "connected"
    /\ Alive(HostOf(s))
    /\ Creates(s, newClient) => Cardinality(DOMAIN mapClient[HostOf(s)]) < MaxClients
    /\ LET w == clientListener(World, s, newClient) IN Room(w) /\ Commit(w)
    /\ last' = [op |-> "client", socket |-> s, client |-> sockClient[s],
                input |-> newClient]
    /\ UNCHANGED nPaints

\* A 'paint' event on socket s.
PaintEvent(s, paint) ==
    /\ sockState[s] = "connected"
    /\ Alive(HostOf(s))
    /\ nPaints < MaxPaints
    /\ nPaints' = nPaints + 1
    /\ Commit(sendPaint(World, HostOf(s), LocalRef(sockClient[s]), paint, s))
    /\ last' = [op |-> "paint", socket |-> s, client |-> sockClient[s], input |-> paint]

\* The parse of a paint's data ends, on server srv.
PaintParsed(srv, i) ==
    /\ Alive(srv)
    /\ i \in DOMAIN parsing[srv]
    /\ LET w == paintParsed(World, srv, i) IN Room(w) /\ Commit(w)
    /\ last' = [op |-> "parsed", server |-> srv, job |-> parsing[srv][i]]
    /\ UNCHANGED nPaints

\* The oldest setImmediate callback of server srv runs.
Painted(srv) ==
    /\ Alive(srv)
    /\ immediates[srv] # <<>>
    /\ Commit(painted(World, srv))
    /\ last' = [op |-> "painted", server |-> srv, origin |-> Head(immediates[srv]).origin]
    /\ UNCHANGED nPaints

\* A pack ends, on server srv.
PackEnd(srv, i) ==
    /\ Alive(srv)
    /\ i \in DOMAIN encodes[srv]
    /\ Commit(packEnd(World, srv, i))
    /\ last' = [op |-> "packed", server |-> srv, job |-> encodes[srv][i]]
    /\ UNCHANGED nPaints

\* A 'stroke' event on socket s.
StrokeEvent(s, stroke) ==
    /\ sockState[s] = "connected"
    /\ Alive(HostOf(s))
    /\ LET w == sendStroke(World, HostOf(s), LocalRef(sockClient[s]), stroke)
       IN  Room(w) /\ Commit(w)
    /\ last' = [op |-> "stroke", socket |-> s, client |-> sockClient[s], input |-> stroke]
    /\ UNCHANGED nPaints

\* A 'pointer' event on socket s.
PointerEvent(s, pointer) ==
    /\ sockState[s] = "connected"
    /\ Alive(HostOf(s))
    /\ LET w == sendPointer(World, HostOf(s), LocalRef(sockClient[s]), pointer)
       IN  Room(w) /\ Commit(w)
    /\ last' = [op |-> "pointer", socket |-> s, client |-> sockClient[s], input |-> pointer]
    /\ UNCHANGED nPaints

\* A 'chat' event on socket s.
ChatEvent(s, chat) ==
    /\ sockState[s] = "connected"
    /\ Alive(HostOf(s))
    /\ LET w == sendChat(World, HostOf(s), LocalRef(sockClient[s]), chat)
       IN  Room(w) /\ Commit(w)
    /\ last' = [op |-> "chat", socket |-> s, client |-> sockClient[s], input |-> chat]
    /\ UNCHANGED nPaints

\* The broker delivers the oldest waiting frame to server srv.
Deliver(srv) ==
    /\ Alive(srv)
    /\ inbox[srv] # <<>>
    /\ LET w == deliver(World, srv) IN Room(w) /\ Commit(w)
    /\ last' = [op |-> "frame", server |-> srv, frame |-> Head(inbox[srv])]
    /\ UNCHANGED nPaints

\* The ping interval of server srv fires; the round before it has timed out.
PingTick(srv) ==
    /\ Alive(srv)
    /\ config[srv].dataMode = "Redis"
    /\ ~timers[srv].timeout
    /\ timers[srv].ticks < MaxRounds
    /\ Commit(pingTick(World, srv))
    /\ last' = [op |-> "tick", server |-> srv]
    /\ UNCHANGED nPaints

\* The ping of the open round of server srv is published.
PingSend(srv) ==
    /\ Alive(srv)
    /\ timers[srv].ping
    /\ LET w == pingSend(World, srv) IN Room(w) /\ Commit(w)
    /\ last' = [op |-> "ping", server |-> srv]
    /\ UNCHANGED nPaints

\* The round of server srv times out, after its ping.
PingTimeout(srv) ==
    /\ Alive(srv)
    /\ timers[srv].timeout
    /\ ~timers[srv].ping
    /\ Commit(pingTimeout(World, srv))
    /\ last' = [op |-> "timeout", server |-> srv, silent |-> timers[srv].otherServers]
    /\ UNCHANGED nPaints

\* Server srv asks the room for its rosters.
Collect(srv) ==
    /\ Alive(srv)
    /\ timers[srv].collect
    /\ LET w == collect(World, srv) IN Room(w) /\ Commit(w)
    /\ last' = [op |-> "collect", server |-> srv]
    /\ UNCHANGED nPaints

\* Server srv is handed a provide frame of `server` with the records `list`.
Provide(srv, server, list) ==
    /\ Alive(srv)
    /\ server # srv
    /\ Commit(frameListener(World, srv,
                  [type |-> "provide", server |-> server,
                   data |-> [target |-> "Clients", body |-> list]]))
    /\ last' = [op |-> "provide", server |-> srv, peer |-> server, list |-> list,
                roster |-> clients[srv]]
    /\ UNCHANGED nPaints

\* A GET of /canvas on server srv: the answer is the flattened canvas.
GetCanvas(srv) ==
    /\ Alive(srv)
    /\ Commit(World)
    /\ last' = [op |-> "canvas", server |-> srv, image |-> canvasToPng(World, srv)]
    /\ UNCHANGED nPaints

\* The broker answers the get of layer n of server srv.
LoadGot(srv, n, err) ==
    /\ Alive(srv)
    /\ n \in DOMAIN boot[srv].load
    /\ boot[srv].load[n] = "get"
    /\ Commit(loadGot(World, srv, n, err))
    /\ last' = [op |-> "got", server |-> srv, layer |-> n, err |-> err]
    /\ UNCHANGED nPaints

\* The parse of the stored image of layer n of server srv ends.
LoadParsed(srv, n) ==
    /\ Alive(srv)
    /\ n \in DOMAIN boot[srv].load
    /\ boot[srv].load[n] = "parse"
    /\ Commit(loadParsed(World, srv, n))
    /\ last' = [op |-> "load", server |-> srv, layer |-> n]
    /\ UNCHANGED nPaints

\* The setImmediate callback of the load of layer n of server srv runs.
LoadImmediate(srv, n) ==
    /\ Alive(srv)
    /\ n \in DOMAIN boot[srv].load
    /\ boot[srv].load[n] = "immediate"
    /\ Commit(loadImmediate(World, srv, n))
    /\ last' = [op |-> "void", server |-> srv, layer |-> n]
    /\ UNCHANGED nPaints

(***************************** inputs **************************************)
Ann == Str(1, 3)
Bob == Str(2, 3)
LongName == Str(3, MaxNameLength + 1)
ShortUuid == Str(9, UuidLength - 1)

\* 'client' events: a new client with a good name, with none, with a long
\* one; a uuid of the wrong length; the first uuid of this server with its
\* pin and a good name, with its pin and no name, and with another pin.
ClientInputs(srv) ==
    {[uuid |-> NoStr, pin |-> NoPin, name |-> Ann],
     [uuid |-> NoStr, pin |-> NoPin, name |-> NoStr],
     [uuid |-> NoStr, pin |-> NoPin, name |-> LongName],
     [uuid |-> ShortUuid, pin |-> NoPin, name |-> Ann],
     [uuid |-> Uuid(srv, 1), pin |-> Pin(srv, 1), name |-> Bob],
     [uuid |-> Uuid(srv, 1), pin |-> Pin(srv, 1), name |-> NoStr],
     [uuid |-> Uuid(srv, 1), pin |-> NoPin, name |-> Bob]}

Red == Image(1, 1, [k \in 0..3 |-> 255 - k])
Blue == Image(1, 1, [k \in 0..3 |-> 100 + k])

Paint(n, mode, x, y, data) ==
    [layerNumber |-> n, mode |-> mode, x |-> x, y |-> y, data |-> data]

\* 'paint' events: two that the validation rules accept, and one for each
\* way of breaking a rule (x = -1/2 and x = -1 are both negative).
GoodPaints ==
    {Paint(Num(0), "normal", Num(0), Num(0), PngOf(Red)),
     Paint(Num(0), "erase", Num(1), Num(0), PngOf(Blue))}
BadPaints ==
    {Paint(NaN, "normal", Num(0), Num(0), PngOf(Red)),
     Paint(Num(-2), "normal", Num(0), Num(0), PngOf(Red)),
     Paint(Num(2), "normal", Num(0), Num(0), PngOf(Red)),
     Paint(Num(0), "normal", NaN, Num(0), PngOf(Red)),
     Paint(Num(0), "normal", Num(0), Num(-2), PngOf(Red)),
     Paint(Num(0), "normal", Num(-1), Num(0), PngOf(Red)),
     Paint(Num(0), "blend", Num(0), Num(0), PngOf(Red)),
     Paint(Num(0), "normal", Num(0), Num(0), NoBuffer),
     Paint(Num(0), "normal", Num(0), Num(0), BadPng)}

\* 'stroke' events: accepted ones (a 4th element, a fraction to round), and
\* broken ones.
GoodStrokes ==
    {[isArray |-> TRUE, points |-> <<>>],
     [isArray |-> TRUE, points |-> <<Point(Num(1), Num(2), Num(3), TRUE)>>]}
BadStrokes ==
    {[isArray |-> FALSE, points |-> <<>>],
     [isArray |-> TRUE, points |-> <<Point(Num(0), Num(0), Num(2), FALSE), NilPoint>>],
     [isArray |-> TRUE, points |-> <<Point(Num(0), NaN, Num(2), FALSE)>>],
     [isArray |-> TRUE, points |-> <<Point(Num(-1), Num(0), Num(2), FALSE)>>],
     [isArray |-> TRUE, points |-> <<Point(Num(0), Num(0), Num(0), FALSE)>>],
     [isArray |-> TRUE, points |-> <<Point(Num(0), Num(3), Num(2), FALSE)>>]}

\* 'pointer' events: on the canvas, the off-canvas mark -1, and out of range
\* (x = -3/2 and x = -2 are both below -1).
GoodPointers == {[x |-> Num(1), y |-> Num(2)], [x |-> Num(-2), y |-> Num(-2)]}
BadPointers ==
    {[x |-> NaN, y |-> Num(0)], [x |-> Num(-4), y |-> Num(0)],
     [x |-> Num(-3), y |-> Num(0)], [x |-> Num(0), y |-> Num(4)]}

\* 'chat' events: accepted ones, with and without a time, and broken ones.
GoodChats ==
    {[message |-> Message(1, 5, FALSE), time |-> NoTime],
     [message |-> Message(1, MaxChatLength, FALSE), time |-> ClientTime(7)]}
BadChats ==
    {[message |-> NoMessage, time |-> NoTime],
     [message |-> Message(2, 3, TRUE), time |-> NoTime],
     [message |-> Message(3, MaxChatLength + 1, FALSE), time |-> NoTime]}

(************************ specifications ***********************************)
\* Spec: one server on its own (data mode None) and the sessions of three
\* sockets: connects, binds, re-binds, take-overs, disconnects.
Standalone == [dataMode |-> "None", canvasWidth |-> 1, canvasHeight |-> 1, layerCount |-> 1]

Init == InitWith(Standalone)

Next ==
    \/ \E s \in SocketsOf(1) : Connect(s)
    \/ \E s \in SocketsOf(1) : BeginClose(s)
    \/ \E s \in SocketsOf(1) : Disconnect(s)
    \/ \E s \in SocketsOf(1) : \E c \in ClientInputs(1) : ClientEvent(s, c)

Spec == Init /\ [][Next]_vars

\* SpecEvents: one server on its own and two sockets that bind as new
\* clients and send paint, stroke, pointer and chat events, well-formed and
\* not, before a bind and after.
EventSockets == {"a", "b"}
EventClient == [uuid |-> NoStr, pin |-> NoPin, name |-> Ann]

NextEvents ==
    \/ \E s \in EventSockets : Connect(s)
    \/ \E s \in EventSockets : ClientEvent(s, EventClient)
    \/ \E s \in EventSockets : \E p \in GoodPaints \cup BadPaints : PaintEvent(s, p)
    \/ \E s \in EventSockets : \E k \in GoodStrokes \cup BadStrokes : StrokeEvent(s, k)
    \/ \E s \in EventSockets : \E p \in GoodPointers \cup BadPointers : PointerEvent(s, p)
    \/ \E s \in EventSockets : \E c \in GoodChats \cup BadChats : ChatEvent(s, c)
    \/ \E i \in 1..MaxPaints : PaintParsed(1, i)
    \/ Painted(1)

SpecEvents == Init /\ [][NextEvents]_vars

\* SpecFanout: one server on its own and two sockets that bind (every name
\* and uuid well-formed), re-bind, disconnect and paint, in every interleaving
\* with the parses in progress.
FanoutClients ==
    {[uuid |-> NoStr, pin |-> NoPin, name |-> Ann],
     [uuid |-> Uuid(1, 1), pin |-> Pin(1, 1), name |-> Bob]}

NextFanout ==
    \/ \E s \in EventSockets : Connect(s)
    \/ \E s \in EventSockets : Disconnect(s)
    \/ \E s \in EventSockets : \E c \in FanoutClients : ClientEvent(s, c)
    \/ \E s \in EventSockets : \E p \in GoodPaints : PaintEvent(s, p)
    \/ \E i \in 1..MaxPaints : PaintParsed(1, i)
    \/ Painted(1)

SpecFanout == Init /\ [][NextFanout]_vars

\* SpecPixels: one server on its own with a CanvasW x CanvasH canvas of
\* LayerCount layers, and one bound socket that paints patches of several
\* sizes at several places, some reaching over the canvas edge.
PixelCanvas ==
    [dataMode |-> "None", canvasWidth |-> CanvasW, canvasHeight |-> CanvasH,
     layerCount |-> LayerCount]

\* A patch of the given size whose bytes differ from each other and from
\* the bytes of the other patches.
Patch(id, width, height) ==
    Image(width, height, [k \in 0..(width * height * 4 - 1) |-> 1 + k + 70 * id])

PixelPaints ==
    {Paint(FromInt(n), "normal", FromInt(q[1]), FromInt(q[2]), PngOf(Patch(0, 1, 1))) :
        n \in {0, LayerCount - 1}, q \in {<<0, 0>>, <<CanvasW - 1, CanvasH - 1>>}}
    \cup
    {Paint(FromInt(LayerCount - 1), "erase", FromInt(q[1]), FromInt(q[2]),
           PngOf(Patch(1, CanvasW, 1))) :
        q \in {<<1, 0>>, <<0, CanvasH>>}}
    \cup
    {Paint(FromInt(LayerCount - 1), "normal", FromInt(q[1]), FromInt(q[2]),
           PngOf(Patch(2, CanvasW + 1, CanvasH + 1))) :
        q \in {<<0, 0>>, <<1, 1>>}}

InitPixels == InitWith(PixelCanvas)

NextPixels ==
    \/ Connect("a")
    \/ ClientEvent("a", [uuid |-> NoStr, pin |-> NoPin, name |-> Ann])
    \/ \E p \in PixelPaints : PaintEvent("a", p)
    \/ \E i \in 1..MaxPaints : PaintParsed(1, i)
    \/ Painted(1)

SpecPixels == InitPixels /\ [][NextPixels]_vars

\* SpecBroker: two servers of one room in data mode Redis with one socket
\* each, a on server 1 and d on server 2.  Both have joined, and the frames of
\* the joins have been delivered; from there they paint the same pixel, and
\* the broker delivers every frame to both servers.
Room2 == [dataMode |-> "Redis", canvasWidth |-> 1, canvasHeight |-> 1, layerCount |-> 1]
BrokerSockets == {"a", "d"}
\* What each socket paints: a red pixel, a blue pixel, at the same place.
BrokerPaint(s) ==
    Paint(Num(0), "normal", Num(0), Num(0), PngOf(IF s = "a" THEN Red ELSE Blue))

\* Socket s connects and binds as a new client.
joined(w, s) ==
    clientListener(ioConnectionListener(w, s), s,
                   [uuid |-> NoStr, pin |-> NoPin, name |-> Ann])

\* Every frame that waits is delivered.
RECURSIVE drained(_)
drained(w) ==
    IF \A srv \in Servers : w.inbox[srv] = <<>> THEN w
    ELSE drained(deliver(w, CHOOSE srv \in Servers : w.inbox[srv] # <<>>))

InitBroker == StartIn(drained(joined(joined(Fresh(Room2), "a"), "d")))

NextBroker ==
    \/ \E s \in BrokerSockets : PaintEvent(s, BrokerPaint(s))
    \/ \E srv \in Servers : \E i \in 1..MaxPaints : PaintParsed(srv, i)
    \/ \E srv \in Servers : Painted(srv)
    \/ \E srv \in Servers : \E i \in 1..MaxPaints : PackEnd(srv, i)
    \/ \E srv \in Servers : Deliver(srv)

SpecBroker == InitBroker /\ [][NextBroker]_vars

\* SpecRoster: two servers of one room in data mode Redis.  Both have asked
\* for rosters, socket a on server 1 and socket d on server 2 have joined,
\* and the frames of all that have been delivered.  From there a second
\* socket b connects to server 1 and binds as a new client, rebinds to the
\* first record of server 1 (the one of a) or sends a `client` event without
\* a name, and the three sockets disconnect, while server 1 runs ping rounds
\* and the broker delivers every frame to both servers.
RosterSockets == {"a", "b", "d"}
RosterClients ==
    {[uuid |-> NoStr, pin |-> NoPin, name |-> Ann],
     [uuid |-> Uuid(1, 1), pin |-> Pin(1, 1), name |-> Bob],
     [uuid |-> NoStr, pin |-> NoPin, name |-> NoStr]}

InitRoster ==
    StartIn(drained(joined(joined(drained(collect(collect(Fresh(Room2), 1), 2)), "a"), "d")))

NextRoster ==
    \/ Connect("b")
    \/ \E s \in RosterSockets : Disconnect(s)
    \/ \E c \in RosterClients : ClientEvent("b", c)
    \/ \E srv \in Servers : Deliver(srv)
    \/ PingTick(1)
    \/ PingSend(1)
    \/ PingTimeout(1)

SpecRoster == InitRoster /\ [][NextRoster]_vars

\* SpecPeers: two servers of one room in data mode Redis with one bound
\* socket each, as in SpecBroker.  The servers ask for rosters and run ping
\* rounds, and the broker delivers every frame to both servers.
NextPeers ==
    \/ \E srv \in Servers : Collect(srv)
    \/ \E srv \in Servers : PingTick(srv)
    \/ \E srv \in Servers : PingSend(srv)
    \/ \E srv \in Servers : PingTimeout(srv)
    \/ \E srv \in Servers : Deliver(srv)

SpecPeers == InitBroker /\ [][NextPeers]_vars

\* SpecChat: the same two servers and sockets.  The sockets chat, and the
\* broker delivers every frame to both servers.
NextChat ==
    \/ \E s \in BrokerSockets : \E chat \in GoodChats : ChatEvent(s, chat)
    \/ \E srv \in Servers : Deliver(srv)

SpecChat == InitBroker /\ [][NextChat]_vars

\* SpecReconcile: updateClientsByServer on its own.  Server 1 starts with
\* any roster of up to MaxRoster records with distinct uuids (its own, and
\* those of peers 2 and 3) and is handed provide frames of the peers with
\* any list of up to MaxList records, records of other servers included.
Record(srv, n, name, online) ==
    [uuid |-> Uuid(srv, n), pin |-> Pin(srv, n), server |-> srv, name |-> name,
     remoteAddr |-> NoSocket, isOnline |-> online]
RosterRecords ==
    {Record(1, 1, Ann, TRUE), Record(2, 1, Ann, TRUE), Record(2, 2, Bob, FALSE),
     Record(3, 1, Bob, TRUE)}
ListRecords ==
    {Record(2, 1, Bob, TRUE), Record(2, 2, Bob, FALSE), Record(1, 1, Ann, TRUE)}
Peers == {2, 3}

\* The sequences of up to n elements of S.
SeqsUpTo(S, n) == UNION {[1..k -> S] : k \in 0..n}

Rosters ==
    {r \in SeqsUpTo(RosterRecords, MaxRoster) :
        \A i, j \in DOMAIN r : r[i].uuid = r[j].uuid => i = j}

InitReconcile ==
    \E r \in Rosters : StartIn([Fresh(Room2) EXCEPT !.clients[1] = r])

NextReconcile ==
    \E server \in Peers : \E list \in SeqsUpTo(ListRecords, MaxList) :
        Provide(1, server, list)

SpecReconcile == InitReconcile /\ [][NextReconcile]_vars

\* The relay of events between two servers: the client of socket a chats,
\* draws, points, paints and leaves, socket d of the other server listens, and
\* the broker delivers every frame to both servers.
RelayChat == [message |-> Message(1, 5, FALSE), time |-> NoTime]
RelayStroke == [isArray |-> TRUE, points |-> <<Point(Num(1), Num(2), Num(3), TRUE)>>]
RelayPointer == [x |-> Num(-2), y |-> Num(-2)]

NextRelay ==
    \/ ChatEvent("a", RelayChat)
    \/ StrokeEvent("a", RelayStroke)
    \/ PointerEvent("a", RelayPointer)
    \/ PaintEvent("a", BrokerPaint("a"))
    \/ Disconnect("a")
    \/ \E srv \in Servers : \E i \in 1..MaxPaints : PaintParsed(srv, i)
    \/ \E srv \in Servers : Painted(srv)
    \/ \E srv \in Servers : Deliver(srv)

SpecRelay == InitBroker /\ [][NextRelay]_vars

\* What a socket is told of the clients: socket b binds on the server of
\* socket a, as a new client or under the uuid and pin of a's, while a's client
\* chats, draws, points and paints, the parses end in the order of the paints,
\* and the broker carries it all to the server of socket d.
NextPins ==
    \/ Connect("b")
    \/ \E c \in FanoutClients : ClientEvent("b", c)
    \/ ChatEvent("a", RelayChat)
    \/ StrokeEvent("a", RelayStroke)
    \/ PointerEvent("a", RelayPointer)
    \/ PaintEvent("a", BrokerPaint("a"))
    \/ \E srv \in Servers : PaintParsed(srv, 1)
    \/ \E srv \in Servers : Deliver(srv)

SpecPins == InitBroker /\ [][NextPins]_vars

\* The persistence of one server: a room that keeps its layer in a file or
\* under a broker key, socket a bound to a client of server 1, which paints the
\* same pixel red and blue; parses and packs end in any order.
StoreModes == {"FS", "Redis"}
StoreRoom(mode) ==
    [dataMode |-> mode, canvasWidth |-> 1, canvasHeight |-> 1, layerCount |-> 1]
StorePaints ==
    {Paint(Num(0), "normal", Num(0), Num(0), PngOf(Red)),
     Paint(Num(0), "normal", Num(0), Num(0), PngOf(Blue))}

InitStore == \E mode \in StoreModes : StartIn(drained(joined(Fresh(StoreRoom(mode)), "a")))

NextStore ==
    \/ \E p \in StorePaints : PaintEvent("a", p)
    \/ \E i \in 1..MaxPaints : PaintParsed(1, i)
    \/ Painted(1)
    \/ \E i \in 1..MaxPaints : PackEnd(1, i)
    \/ \E srv \in Servers : Deliver(srv)

SpecStore == InitStore /\ [][NextStore]_vars

\* The flattened canvas: a client paints pixels of several opacities on the
\* layers of a small canvas, one over the other and side by side, and the
\* canvas is fetched at any moment.
Pixel(r, g, b, a) == Image(1, 1, [k \in 0..3 |-> <<r, g, b, a>>[k + 1]])
CanvasPixels ==
    {Pixel(1, 100, 200, 128), Pixel(10, 20, 30, 255), Pixel(9, 9, 9, 0), Pixel(254, 0, 77, 1)}
CanvasPaints ==
    {Paint(FromInt(n), "normal", FromInt(x), Num(0), PngOf(px)) :
        n \in {0, LayerCount - 1}, x \in {0, CanvasW - 1}, px \in CanvasPixels}

InitCanvas == StartIn(joined(Fresh(PixelCanvas), "a"))

NextCanvas ==
    \/ \E p \in CanvasPaints : PaintEvent("a", p)
    \/ PaintParsed(1, 1)
    \/ GetCanvas(1)

SpecCanvas == InitCanvas /\ [][NextCanvas]_vars

\* The start of server 1: in each data mode, over a store that holds for
\* each layer nothing, an image of the size of the canvas or an image of
\* another size, with an image library whose end() throws or does not; a
\* socket may connect before the layers are loaded.
BootRoom(mode) ==
    [dataMode |-> mode, canvasWidth |-> 1, canvasHeight |-> 1, layerCount |-> LayerCount]
Wide == Image(2, 1, [k \in 0..7 |-> 50 + k])
Snapshots == {NoBuffer, PngOf(Red), PngOf(Wide)}

\* The world when the constructor of server 1 returns.
Booting(mode, held, throws) ==
    syncLayers([Fresh(BootRoom(mode)) EXCEPT
                   !.store[IF mode = "Redis" THEN 0 ELSE 1] = held,
                   !.boot[1].endThrows = throws], 1)

InitBoot ==
    \E mode \in DataModes : \E held \in [0..(LayerCount - 1) -> Snapshots] :
        \E throws \in BOOLEAN : StartIn(Booting(mode, held, throws))

LoadStep ==
    \/ \E n \in 0..(LayerCount - 1) : \E err \in BOOLEAN : LoadGot(1, n, err)
    \/ \E n \in 0..(LayerCount - 1) : LoadParsed(1, n)
    \/ \E n \in 0..(LayerCount - 1) : LoadImmediate(1, n)

NextBoot ==
    \/ LoadStep
    \/ Connect("a")
    \/ Disconnect("a")

SpecBoot == InitBoot /\ [][NextBoot]_vars

\* The same start, where no callback that is due waits for ever.
SpecBootLive == InitBoot /\ [][NextBoot]_vars /\ WF_vars(LoadStep)

(***************************** properties **********************************)
\* What the validation rules say of an event, whatever the code does with it.
ClientBroken(c) ==
    \/ c.uuid.len > 0 /\ c.uuid.len # UuidLength
    \/ c.name.len = 0
    \/ c.name.len > MaxNameLength

\* floor(v)
Floor(v) == v.h \div 2

PaintBroken(srv, p) ==
    \/ isNaN(p.layerNumber) \/ isNaN(p.x) \/ isNaN(p.y)
    \/ NumLt(p.layerNumber, 0) \/ ~NumLt(p.layerNumber, config[srv].layerCount)
    \/ Floor(p.x) < 0 \/ Floor(p.y) < 0
    \/ p.mode \notin {"normal", "erase"}
    \/ ~p.data.isBuffer \/ ~p.data.ok

StrokeBroken(srv, k) ==
    \/ ~k.isArray
    \/ \E i \in DOMAIN k.points :
          \/ k.points[i].nil
          \/ isNaN(k.points[i].x) \/ isNaN(k.points[i].y) \/ isNaN(k.points[i].p)
          \/ NumLt(k.points[i].x, 0) \/ NumLt(k.points[i].y, 0) \/ NumLe(k.points[i].p, 0)
          \/ NumGt(k.points[i].x, config[srv].canvasWidth)
          \/ NumGt(k.points[i].y, config[srv].canvasHeight)

PointerBroken(srv, p) ==
    \/ isNaN(p.x) \/ isNaN(p.y)
    \/ Floor(p.x) < -1 \/ Floor(p.y) < -1
    \/ Floor(p.x) > config[srv].canvasWidth \/ Floor(p.y) > config[srv].canvasHeight

ChatBroken(c) ==
    ~c.message.isString \/ c.message.blank \/ c.message.text.len > MaxChatLength

\* The sockets the step just taken sent event ev to, with multiplicity.
Received(t, ev) == {i \in DOMAIN sent : sent[i].ev = ev /\ t \in sent[i].to}

\* C1: a 'client' event whose (uuid, pin) matches a record of the server keeps
\* the uuid, leaves no other socket connected under it, and sets the name,
\* the online flag and the index entry; and when the 'disconnect' of a socket
\* bound to that record is handled after the bind, the record stays online
\* and indexed under the socket that bound last.
C1_RebindHolds ==
    [][/\ \A s \in Sockets :
            (/\ last'.op = "client"
             /\ last'.socket = s
             /\ ~ClientBroken(last'.input)
             /\ Known(World, HostOf(s), last'.input))
            => /\ sockClient'[s] = last'.input.uuid
               /\ mapClient'[HostOf(s)][last'.input.uuid].isOnline
               /\ mapClient'[HostOf(s)][last'.input.uuid].name = last'.input.name
               /\ last'.input.uuid \in DOMAIN mapSocket'[HostOf(s)]
               /\ mapSocket'[HostOf(s)][last'.input.uuid] = s
               /\ \A t \in Sockets \ {s} :
                     (/\ last'.input.uuid \in DOMAIN mapSocket[HostOf(s)]
                      /\ mapSocket[HostOf(s)][last'.input.uuid] = t)
                     => sockState'[t] # "connected"
       /\ \A s, t \in Sockets :
            (/\ last'.op = "disconnect"
             /\ last'.socket = t
             /\ s # t
             /\ HostOf(s) = HostOf(t)
             /\ sockClient[t] # Null
             /\ sockClient[s] = sockClient[t]
             /\ sockState[s] = "connected"
             /\ sockClient[t] \in DOMAIN mapSocket[HostOf(t)]
             /\ mapSocket[HostOf(t)][sockClient[t]] = s)
            => /\ sockClient[t] \in DOMAIN mapSocket'[HostOf(t)]
               /\ mapSocket'[HostOf(t)][sockClient[t]] = s
               /\ mapClient'[HostOf(t)][sockClient[t]].isOnline
               /\ mapClient'[HostOf(t)][sockClient[t]].name =
                      mapClient[HostOf(t)][sockClient[t]].name]_vars

\* C2: every record a server hosts is either offline and absent from the
\* socket index, or online and indexed under one socket of that server.
C2_OnlineIffIndexed ==
    \A srv \in Servers : \A i \in DOMAIN clients[srv] :
        clients[srv][i].server = srv
        => /\ clients[srv][i].isOnline <=> clients[srv][i].uuid \in DOMAIN mapSocket[srv]
           /\ clients[srv][i].uuid \in DOMAIN mapSocket[srv]
              => mapSocket[srv][clients[srv][i].uuid] \in SocketsOf(srv)

\* A disconnect has just been handled, and the server hosts a record that is
\* offline and unindexed next to one that is online and indexed.
C2_Witness ==
    /\ last.op = "disconnect"
    /\ last.client # Null
    /\ \E i, j \in DOMAIN clients[1] :
          /\ ~clients[1][i].isOnline
          /\ clients[1][i].uuid \notin DOMAIN mapSocket[1]
          /\ clients[1][j].isOnline
          /\ clients[1][j].uuid \in DOMAIN mapSocket[1]

\* C3: no two connected sockets of one server are bound to the same Client.
C3_OneSocketPerClient ==
    \A s, t \in Sockets :
        (/\ s # t
         /\ HostOf(s) = HostOf(t)
         /\ sockState[s] = "connected"
         /\ sockState[t] = "connected"
         /\ sockClient[s] # Null)
        => sockClient[s] # sockClient[t]

\* C4: a 'client' event that fails validation leaves the roster, the records
\* and the socket index as they were, and nothing is emitted or published.
C4_BrokenClientChangesNothing ==
    [][(last'.op = "client" /\ ClientBroken(last'.input))
       => /\ clients' = clients
          /\ mapClient' = mapClient
          /\ mapSocket' = mapSocket
          /\ sent' = <<>>
          /\ pub' = <<>>]_vars

\* C5: a paint, stroke, pointer or chat event of a socket that is not bound
\* is dropped: handling it, and completing the parse of such a paint, leaves
\* the server running, the layers and the roster as they were, and emits and
\* publishes nothing.
C5_UnboundDropped ==
    [][(\/ last'.op \in {"paint", "stroke", "pointer", "chat"} /\ last'.client = Null
        \/ last'.op = "parsed" /\ IsNullClient(last'.job.client))
       => /\ faulted' = faulted
          /\ layers' = layers
          /\ clients' = clients
          /\ sent' = <<>>
          /\ pub' = <<>>]_vars

\* C6: a paint, stroke, pointer or chat event of a bound socket that breaks
\* its validation rule changes no layer, raises no Layer event, reaches no
\* socket, publishes nothing and leaves every socket connected; the same
\* goes for the end of the parse of such a paint.
C6_BrokenEventNoEffect ==
    [][(\/ /\ last'.op = "paint"
           /\ last'.client # Null
           /\ PaintBroken(HostOf(last'.socket), last'.input)
        \/ /\ last'.op = "parsed"
           /\ ~IsNullClient(last'.job.client)
           /\ PaintBroken(last'.server, last'.job.input)
        \/ /\ last'.op = "stroke"
           /\ last'.client # Null
           /\ StrokeBroken(HostOf(last'.socket), last'.input)
        \/ /\ last'.op = "pointer"
           /\ last'.client # Null
           /\ PointerBroken(HostOf(last'.socket), last'.input)
        \/ /\ last'.op = "chat"
           /\ last'.client # Null
           /\ ChatBroken(last'.input))
       => /\ layers' = layers
          /\ raised' = <<>>
          /\ \A i \in DOMAIN sent' : sent'[i].to = {}
          /\ pub' = <<>>
          /\ sockState' = sockState
          /\ faulted' = faulted]_vars

\* C7: when the parse of a paint that a bound socket s sent ends and s is
\* still connected, every other connected socket of the server gets one
\* 'paint' with the uuid and name of the sender's record, s gets none, and the
\* acknowledgement is queued; when the acknowledgement runs, s and nobody
\* else gets 'painted'.
C7_PaintFanout ==
    /\ (/\ last.op = "parsed"
        /\ last.job.paint.data.ok
        /\ last.job.client.ref
        /\ ~IsNullClient(last.job.client)
        /\ sockState[last.job.origin] = "connected")
       => /\ \A t \in Connected(World, last.server) \ {last.job.origin} :
                /\ Cardinality(Received(t, "paint")) = 1
                /\ \A i \in Received(t, "paint") :
                      /\ sent[i].body.client.uuid = last.job.client.uuid
                      /\ sent[i].body.client.name =
                            mapClient[last.server][last.job.client.uuid].name
          /\ Received(last.job.origin, "paint") = {}
          /\ \A t \in Sockets : Received(t, "painted") = {}
          /\ \E k \in DOMAIN immediates[last.server] :
                immediates[last.server][k].origin = last.job.origin
    /\ (last.op = "painted" /\ sockState[last.origin] = "connected")
       => /\ ~faulted[last.server]
          /\ Cardinality(Received(last.origin, "painted")) = 1
          /\ \A t \in Sockets \ {last.origin} : Received(t, "painted") = {}

\* C8: when the parse of a paint ends, the pixels of the layer inside
\* [x, min(x + pw, W)) x [y, min(y + ph, H)) hold the four bytes of the
\* patch pixel they correspond to, whatever the mode, and every other byte of
\* that layer and of the other layers is what it was.
C8_PixelCopy ==
    [][(last'.op = "parsed" /\ last'.job.paint.data.ok)
       => /\ \A m \in DOMAIN layers[last'.server] :
                m # last'.job.paint.layerNumber.h \div 2
                => layers'[last'.server][m] = layers[last'.server][m]
          /\ \A X \in 0..(config[last'.server].canvasWidth - 1) :
             \A Y \in 0..(config[last'.server].canvasHeight - 1) :
             \A c \in 0..3 :
                layers'[last'.server][last'.job.paint.layerNumber.h \div 2]
                       [(Y * config[last'.server].canvasWidth + X) * 4 + c]
                = IF /\ X >= last'.job.paint.x
                     /\ X < Min(last'.job.paint.x + last'.job.paint.data.img.width,
                                config[last'.server].canvasWidth)
                     /\ Y >= last'.job.paint.y
                     /\ Y < Min(last'.job.paint.y + last'.job.paint.data.img.height,
                                config[last'.server].canvasHeight)
                  THEN last'.job.paint.data.img.data
                           [((Y - last'.job.paint.y) * last'.job.paint.data.img.width
                             + (X - last'.job.paint.x)) * 4 + c]
                  ELSE layers[last'.server][last'.job.paint.layerNumber.h \div 2]
                             [(Y * config[last'.server].canvasWidth + X) * 4 + c]]_vars

\* The parse of a patch that reaches over the right edge of the canvas has
\* just ended, on a layer that holds a pixel of an earlier paint to its left.
C8_Witness ==
    /\ last.op = "parsed"
    /\ last.job.paint.data.ok
    /\ last.job.paint.x > 0
    /\ last.job.paint.x + last.job.paint.data.img.width > CanvasW
    /\ last.job.paint.y = 0
    /\ layers[1][last.job.paint.layerNumber.h \div 2][3] # 0
    /\ layers[1][last.job.paint.layerNumber.h \div 2][4 * last.job.paint.x + 3] # 0

\* C9: when the parse of a paint ends on the server that hosts the sender,
\* the layer raises 'change' and nothing else, the pack for the snapshot
\* store starts, and one 'paint' frame of this server is published; when it
\* ends on a server that got the paint from the broker, the layer raises
\* 'update' and nothing else, no pack starts, the store is not written and
\* nothing is published.
C9_ChangeAtHostOnly ==
    [][(/\ last'.op = "parsed"
        /\ last'.job.paint.data.ok
        /\ ~IsNullClient(last'.job.client))
       => IF last'.job.client.ref
          THEN /\ raised' = <<[layer |-> last'.job.paint.layerNumber.h \div 2,
                               ev |-> "change"]>>
               /\ Len(pub') = 1
               /\ pub'[1].type = "paint"
               /\ pub'[1].server = last'.server
               /\ pub'[1].data.body = last'.job.paint
               /\ Len(encodes'[last'.server]) = Len(encodes[last'.server]) + 1
               /\ encodes'[last'.server][Len(encodes'[last'.server])].to = "store"
          ELSE /\ raised' = <<[layer |-> last'.job.paint.layerNumber.h \div 2,
                               ev |-> "update"]>>
               /\ pub' = <<>>
               /\ encodes' = encodes
               /\ store' = store]_vars

\* The parse of a paint that came from the broker has just ended, on a server
\* other than the one whose write of that layer is in the store.
C9_Witness ==
    /\ last.op = "parsed"
    /\ last.job.paint.data.ok
    /\ ~last.job.client.ref
    /\ raised # <<>>
    /\ store[0][0] # NoBuffer

\* C10: when no frame waits for delivery, no parse is in progress and every
\* server runs, the servers of the room hold the same layer bytes.
C10_Convergence ==
    (\A srv \in Servers :
        inbox[srv] = <<>> /\ parsing[srv] = <<>> /\ ~faulted[srv])
    => \A srv \in Servers : layers[srv] = layers[1]

\* Where a parse in progress came from: a socket, or the stream of a peer.
SourceOf(job) == <<job.origin, IF job.client.ref THEN 0 ELSE job.client.rec.server>>

\* C11: the parse that ends, and with it the paint that is applied and fanned
\* out, is the oldest one in progress of its source (its socket, or the
\* stream of its peer): no paint overtakes an earlier one of the same source.
C11_PaintOrder ==
    [][last'.op = "parsed"
       => \E i \in DOMAIN parsing[last'.server] :
             /\ parsing[last'.server][i] = last'.job
             /\ parsing'[last'.server] = RemoveAt(parsing[last'.server], i)
             /\ \A k \in 1..(i - 1) :
                   SourceOf(parsing[last'.server][k]) # SourceOf(last'.job)]_vars

\* C12: the snapshot cache of every layer is absent or is the encoding of
\* the pixels the layer holds now.
C12_CacheIsCurrent ==
    \A srv \in Servers : \A n \in DOMAIN layers[srv] :
        \/ pngCache[srv][n] = NoBuffer
        \/ pngCache[srv][n] = PngOf(Image(config[srv].canvasWidth,
                                          config[srv].canvasHeight, layers[srv][n]))

\* A `client` event on socket s that passes validation and names a record of
\* the server of s with a pin that is not the record's.
PinMismatch(s, newClient) ==
    /\ ~ClientBroken(newClient)
    /\ newClient.uuid \in DOMAIN mapClient[HostOf(s)]
    /\ mapClient[HostOf(s)][newClient.uuid].pin # newClient.pin

\* What a pin mismatch on socket s for uuid u is to bring about: a record
\* with a uuid and a pin that no record had is bound to s, and the record of
\* u, its index entry and the socket indexed under it are as they were.
PinMismatchEffect(s, u) ==
    LET srv == HostOf(s) IN
    /\ sockClient'[s] \notin DOMAIN mapClient[srv]
    /\ sockClient'[s] \in DOMAIN mapClient'[srv]
    /\ \A v \in DOMAIN mapClient[srv] :
          mapClient[srv][v].pin # mapClient'[srv][sockClient'[s]].pin
    /\ sockClient'[s] \in DOMAIN mapSocket'[srv]
    /\ mapSocket'[srv][sockClient'[s]] = s
    /\ mapClient'[srv][u] = mapClient[srv][u]
    /\ \A i \in DOMAIN clients[srv] :
          clients[srv][i].uuid = u => clients'[srv][i] = clients[srv][i]
    /\ u \in DOMAIN mapSocket[srv]
          => /\ u \in DOMAIN mapSocket'[srv]
             /\ mapSocket'[srv][u] = mapSocket[srv][u]
             /\ sockState'[mapSocket[srv][u]] = sockState[mapSocket[srv][u]]

\* C14: a `client` event that names the uuid of a record with another pin,
\* sent on a socket that is not bound to that record, creates a record with
\* a fresh uuid and pin and binds it to the socket; the named record keeps
\* its name, pin and online flag, and the socket attached to it stays
\* connected and indexed.
C14_PinMismatch ==
    [][(/\ last'.op = "client"
        /\ PinMismatch(last'.socket, last'.input)
        /\ sockClient[last'.socket] # last'.input.uuid)
       => PinMismatchEffect(last'.socket, last'.input.uuid)]_vars

\* C14 as stated, for every sending socket, the one bound to the named
\* record included.
C14_PinMismatchAnySocket ==
    [][(last'.op = "client" /\ PinMismatch(last'.socket, last'.input))
       => PinMismatchEffect(last'.socket, last'.input.uuid)]_vars

\* A pin mismatch for a record that another socket is attached to has been
\* handled.
C14_Witness ==
    /\ last.op = "client"
    /\ last.input.uuid = Uuid(1, 1)
    /\ last.input.pin # Pin(1, 1)
    /\ ~ClientBroken(last.input)
    /\ last.client # Uuid(1, 1)
    /\ Uuid(1, 1) \in DOMAIN mapSocket[1]
    /\ mapSocket[1][Uuid(1, 1)] # last.socket
    /\ sockClient[last.socket] = Uuid(1, 2)

\* C15: no two records of a server's roster have the same uuid.
C15_UniqueUuid ==
    \A srv \in Servers : \A i, j \in DOMAIN clients[srv] :
        clients[srv][i].uuid = clients[srv][j].uuid => i = j

\* A provide frame of a peer has been merged into a roster that holds
\* records of both servers.
C15_Witness ==
    /\ last.op = "frame"
    /\ last.frame.type = "provide"
    /\ last.frame.server # last.server
    /\ last.frame.data.body # <<>>
    /\ \E i, j \in DOMAIN clients[last.server] :
          clients[last.server][i].server # clients[last.server][j].server

\* The records a server hosts stay in its uuid lookup with their pin, and in
\* its roster, over the step.
LocalRecordsStay ==
    \A srv \in Servers : \A u \in DOMAIN mapClient[srv] :
        /\ u \in DOMAIN mapClient'[srv]
        /\ mapClient'[srv][u].pin = mapClient[srv][u].pin
        /\ \E i \in DOMAIN clients'[srv] :
              clients'[srv][i].uuid = u /\ clients'[srv][i].server = srv

\* C16: after the 'disconnect' of a bound socket its client is offline and
\* not in the socket index; no step removes a record from the uuid lookup or
\* the roster of the server that hosts it; and a valid `client` event with
\* the uuid and pin of a record binds the socket to that uuid.
C16_RecordPersists ==
    [][/\ LocalRecordsStay
       /\ (last'.op = "disconnect" /\ last'.client # Null /\ last'.client.len > 0)
             => /\ last'.client \notin DOMAIN mapSocket'[HostOf(last'.socket)]
                /\ ~mapClient'[HostOf(last'.socket)][last'.client].isOnline
       /\ (/\ last'.op = "client"
           /\ ~ClientBroken(last'.input)
           /\ last'.input.uuid \in DOMAIN mapClient[HostOf(last'.socket)]
           /\ mapClient[HostOf(last'.socket)][last'.input.uuid].pin = last'.input.pin)
             => /\ sockClient'[last'.socket] = last'.input.uuid
                /\ last'.input.uuid \in DOMAIN mapSocket'[HostOf(last'.socket)]
                /\ mapSocket'[HostOf(last'.socket)][last'.input.uuid] = last'.socket
                /\ mapClient'[HostOf(last'.socket)][last'.input.uuid].isOnline]_vars

\* Socket b has re-attached to the first record of server 1 after the socket
\* that held it had left, and after a ping round of server 1.
C16_Witness ==
    /\ last.op = "client"
    /\ last.socket = "b"
    /\ last.input.uuid = Uuid(1, 1)
    /\ sockClient["b"] = Uuid(1, 1)
    /\ sockState["a"] = "closed"
    /\ \A i \in DOMAIN sent : sent[i].ev = "chat" => sent[i].body.message.text # "has left."
    /\ timers[1].ticks > 0

\* The online roster of server srv as its sockets are to see it, for the
\* roster cl.
OnlineRoster(cl, srv) == distributableClients([clients |-> cl], srv)

\* The last `clients` event of the step went to every socket in the
\* namespace of server srv and carried its online roster.
RosterAnnounced(srv) ==
    \E i \in DOMAIN sent' :
        /\ sent'[i].ev = "clients"
        /\ \A j \in DOMAIN sent' : j > i => sent'[j].ev # "clients"
        /\ sent'[i].to = Connected([sockState |-> sockState'], srv)
        /\ sent'[i].body = OnlineRoster(clients', srv)

\* C17: a step that changes the online roster of a server ends with a
\* `clients` event to every socket of the server that carries the online
\* roster as it is after the step.
C17_RosterBroadcast ==
    [][\A srv \in Servers :
          OnlineRoster(clients', srv) # OnlineRoster(clients, srv)
             => RosterAnnounced(srv)]_vars

\* C13: when a server is handed a frame it published itself, the frame
\* leaves the subscriber connection and nothing else happens: roster,
\* lookups, sockets, layers, work in progress, store and timers stay as they
\* are, no socket gets an event and nothing is published (no pong to its own
\* ping, no provide to its own collect).
C13_OwnFrameDropped ==
    [][(last'.op = "frame" /\ last'.frame.server = last'.server)
       => /\ inbox' = [inbox EXCEPT ![last'.server] = Tail(@)]
          /\ sent' = <<>> /\ pub' = <<>> /\ raised' = <<>>
          /\ UNCHANGED <<config, clients, mapClient, mapSocket, sockState,
                         sockClient, layers, pngCache, parsing, immediates,
                         encodes, store, faulted, timers>>]_vars

\* A server has been handed its own pong while its ping round was open and
\* a peer had not answered yet.
C13_Witness ==
    /\ last.op = "frame"
    /\ last.frame.server = last.server
    /\ last.frame.type = "pong"
    /\ timers[last.server].timeout
    /\ timers[last.server].otherServers # {}

\* C19: a server that is handed the collect of another server publishes one
\* frame, a provide, whose body holds every record the server hosts and no
\* other record.
C19_CollectAnswered ==
    [][(/\ last'.op = "frame"
        /\ last'.frame.type = "collect"
        /\ last'.frame.server # last'.server)
       => /\ Len(pub') = 1
          /\ pub'[1].type = "provide"
          /\ pub'[1].server = last'.server
          /\ pub'[1].data.target = "Clients"
          /\ {pub'[1].data.body[i] : i \in DOMAIN pub'[1].data.body}
                = {mapClient[last'.server][u] : u \in DOMAIN mapClient[last'.server]}
          /\ Len(pub'[1].data.body) = Cardinality(DOMAIN mapClient[last'.server])]_vars

\* A server whose roster holds a record of its peer next to its own has
\* answered the peer's collect.
C19_Witness ==
    /\ last.op = "frame"
    /\ last.frame.type = "collect"
    /\ last.frame.server # last.server
    /\ Len(pub) = 1
    /\ \E i \in DOMAIN clients[last.server] : clients[last.server][i].server # last.server
    /\ \E i \in DOMAIN clients[last.server] : clients[last.server][i].server = last.server

\* The step emitted one event, a `chat` with this message, to every socket
\* in the namespace of server srv.
ChatEmittedOnce(srv, message) ==
    /\ Len(sent') = 1
    /\ sent'[1].ev = "chat"
    /\ sent'[1].to = Connected([sockState |-> sockState'], srv)
    /\ sent'[1].body.message = message

\* C18: a valid chat of a bound socket is emitted once to every socket of
\* its server, the sender included, and in data mode Redis one frame, a
\* chat, is published; the chat frame of a peer is emitted once to every
\* socket of the server and nothing is published.
C18_ChatFanout ==
    [][/\ (/\ last'.op = "chat"
           /\ ~ChatBroken(last'.input)
           /\ last'.client # Null)
          => /\ ChatEmittedOnce(HostOf(last'.socket), last'.input.message)
             /\ last'.socket \in sent'[1].to
             /\ IF config[HostOf(last'.socket)].dataMode = "Redis"
                THEN /\ Len(pub') = 1
                     /\ pub'[1].type = "chat"
                     /\ pub'[1].server = HostOf(last'.socket)
                     /\ pub'[1].data.body.message = last'.input.message
                ELSE pub' = <<>>
       /\ (/\ last'.op = "frame"
           /\ last'.frame.type = "chat"
           /\ last'.frame.server # last'.server)
          => /\ ChatEmittedOnce(last'.server, last'.frame.data.body.message)
             /\ pub' = <<>>]_vars

\* A server has handed the chat of a peer's client to its sockets.
C18_Witness ==
    /\ last.op = "frame"
    /\ last.frame.type = "chat"
    /\ last.frame.server # last.server
    /\ Len(sent) = 1
    /\ sent[1].to # {}

\* The records of roster r that server p hosts, and the others, in order.
HostedBy(r, p) == LET Theirs(c) == c.server = p IN SelectSeq(r, Theirs)
NotHostedBy(r, p) == LET Others(c) == c.server # p IN SelectSeq(r, Others)

\* C20: merging the list of peer p into a roster gives the roster without
\* the records p hosted, followed by the entries of the list that p hosts;
\* the records of the server itself and of other peers are the ones they
\* were, in the order they were; and merging the same list again changes
\* nothing.
C20_Reconcile ==
    [][last'.op = "provide"
       => /\ clients'[last'.server] =
                NotHostedBy(clients[last'.server], last'.peer)
                   \o HostedBy(last'.list, last'.peer)
          /\ NotHostedBy(clients'[last'.server], last'.peer)
                = NotHostedBy(clients[last'.server], last'.peer)
          /\ HostedBy(clients'[last'.server], last'.peer)
                = HostedBy(last'.list, last'.peer)
          /\ updateClientsByServer([clients |-> clients'], last'.server,
                                   last'.peer, last'.list).clients
                = clients']_vars

\* A list with records of peer 2 and of another server has been merged into
\* a roster that held a record of peer 2 the list does not name, next to
\* records of server 1 and of peer 3.
C20_Witness ==
    /\ last.op = "provide"
    /\ last.peer = 2
    /\ \E i \in DOMAIN last.roster :
          /\ last.roster[i].server = 2
          /\ \A j \in DOMAIN last.list : last.list[j].uuid # last.roster[i].uuid
    /\ \E i \in DOMAIN last.roster : last.roster[i].server = 1
    /\ \E i \in DOMAIN last.roster : last.roster[i].server = 3
    /\ \E j \in DOMAIN last.list : last.list[j].server = 2
    /\ \E j \in DOMAIN last.list : last.list[j].server # 2

\* The records of roster r that none of the servers of set ps hosts.
NotHostedByAny(r, ps) == LET Kept(c) == c.server \notin ps IN SelectSeq(r, Kept)

\* The servers other than srv that host a record of roster cl.
RemoteHosts(cl, srv) == {cl[i].server : i \in DOMAIN cl} \ {srv}

\* C21: a ping round opens for every remote server of the roster; while it
\* is open a server stops being awaited only when a pong of it is handed
\* to the listener; and at the time-out the roster holds no record of a
\* server still awaited, and a `clients` event that lists no client of such a
\* server has gone to every socket of the server.
C21_SilentServerPruned ==
    [][\A srv \in Servers :
          /\ (last'.op = "tick" /\ last'.server = srv)
                => RemoteHosts(clients[srv], srv) \subseteq timers'[srv].otherServers
          /\ (timers[srv].timeout /\ timers'[srv].timeout)
                => \A p \in timers[srv].otherServers \ timers'[srv].otherServers :
                      /\ last'.op = "frame" /\ last'.server = srv
                      /\ last'.frame.type = "pong" /\ last'.frame.server = p
          /\ (last'.op = "timeout" /\ last'.server = srv /\ last'.silent # {})
                => /\ RemoteHosts(clients'[srv], srv) \cap last'.silent = {}
                   /\ \E i \in DOMAIN sent' :
                         /\ sent'[i].ev = "clients"
                         /\ sent'[i].to = Connected([sockState |-> sockState'], srv)
                         /\ \A k \in DOMAIN sent'[i].body :
                               sent'[i].body[k].server \notin last'.silent]_vars

\* A round has timed out with a server still awaited, and a socket was
\* there to be told.
C21_Witness ==
    /\ last.op = "timeout"
    /\ last.silent # {}
    /\ \E i \in DOMAIN sent : sent[i].ev = "clients" /\ sent[i].to # {}

\* C26: the time-out removes no record but those of the servers still
\* awaited, which are remote servers that hosted a record when the round
\* opened; a server whose pong has been handed to the listener while the
\* round is open is not awaited from then on, so its records stay; and no
\* step of the liveness loop removes a record of the server itself.
C26_PruneOnlySilent ==
    [][\A srv \in Servers :
          /\ (last'.op = "tick" /\ last'.server = srv)
                => /\ timers'[srv].otherServers \subseteq RemoteHosts(clients[srv], srv)
                   /\ clients'[srv] = clients[srv]
          /\ (timers[srv].timeout /\ timers'[srv].timeout)
                => timers'[srv].otherServers \subseteq timers[srv].otherServers
          /\ (/\ last'.op = "frame" /\ last'.server = srv /\ timers[srv].timeout
              /\ last'.frame.type = "pong")
                => last'.frame.server \notin timers'[srv].otherServers
          /\ (last'.op = "timeout" /\ last'.server = srv)
                => /\ last'.silent = timers[srv].otherServers
                   /\ srv \notin last'.silent
                   /\ clients'[srv] = NotHostedByAny(clients[srv], last'.silent)]_vars

\* A round has timed out after the pong of the peer had come, with the
\* record of the peer in the roster.
C26_Witness ==
    /\ last.op = "timeout"
    /\ last.silent = {}
    /\ RemoteHosts(clients[last.server], last.server) # {}

\* No frame waits for any server.
BrokerQuiet == \A srv \in Servers : inbox[srv] = <<>>

\* C22: once no frame waits, the records each server holds for a peer are
\* the records the peer hosts: the same clients with the same fields, in the
\* same order.
C22_RosterConverges ==
    BrokerQuiet
       => \A srv \in Servers : \A p \in Servers \ {srv} :
             HostedBy(clients[srv], p) = LocalClients(World, p)


\* C29: when the setImmediate callback of a paint runs, the server does not
\* fault, and a `painted` it emits goes to the socket that sent the paint and
\* to no other socket, whatever happened to that socket since the fan-out.
C29_DeferredAck ==
    [][\A srv \in Servers :
         (last'.op = "painted" /\ last'.server = srv) =>
            /\ ~faulted'[srv]
            /\ \A i \in DOMAIN sent' :
                 sent'[i].ev = "painted" => sent'[i].to \subseteq {last'.origin}]_vars

\* The kinds of frame that carry an event of a client or a message of a server.
EventFrames == {"chat", "system", "paint", "stroke", "pointer"}

\* The emissions of the step that reach socket s.
Reaching(log, s) == {i \in DOMAIN log : s \in log[i].to}

PublicFields == {"uuid", "name", "server"}

\* C30: the pin of a client is in no event but the `client` reply, which goes
\* to the one socket whose bind it answers and carries the pin of the client
\* that socket is now bound to; the clients named in a `clients`, `chat`,
\* `paint`, `stroke` or `pointer` event, of this server or of a peer, come
\* with uuid, name and server and neither pin nor remote address.
C30_PinToBinderOnly ==
    \A i \in DOMAIN sent :
       /\ sent[i].ev = "client"
          => /\ last.op = "client"
             /\ sent[i].to = {last.socket}
             /\ sockClient[last.socket] = sent[i].body.uuid
             /\ sent[i].body.pin = mapClient[HostOf(last.socket)][sent[i].body.uuid].pin
       /\ sent[i].ev = "clients"
          => \A k \in DOMAIN sent[i].body : DOMAIN sent[i].body[k] = PublicFields
       /\ sent[i].ev \in {"paint", "stroke", "pointer"}
          => DOMAIN sent[i].body.client = PublicFields
       /\ sent[i].ev = "chat"
          => /\ {"pin", "remoteAddr"} \cap DOMAIN sent[i].body = {}
             /\ "client" \in DOMAIN sent[i].body
                  => DOMAIN sent[i].body.client = PublicFields
       /\ sent[i].ev \notin {"client", "clients", "paint", "stroke", "pointer", "chat"}
          => {"pin", "remoteAddr"} \cap DOMAIN sent[i].body = {}

\* A server has handed the paint of a peer's client, whose record came over the
\* broker with its pin, to a socket of its own.
C30_Witness ==
    /\ last.op = "parsed"
    /\ last.job.origin = NoSocket
    /\ "pin" \in DOMAIN last.job.client.rec
    /\ Len(sent) = 1
    /\ sent[1].ev = "paint"
    /\ sent[1].to # {}

\* C27: on a server that persists its layers, once a paint of a local client
\* has been applied and no parse and no encode of the server is pending, the
\* stored snapshot of the layer is the encoding of the pixels the layer holds.
C27_StoreIsCurrent ==
    (/\ config[1].dataMode \in StoreModes
     /\ nPaints > 0
     /\ parsing[1] = <<>>
     /\ encodes[1] = <<>>
     /\ ~faulted[1])
       => \A n \in DOMAIN layers[1] :
             store[StoreOf(World, 1)][n] =
                 PngOf(Image(config[1].canvasWidth, config[1].canvasHeight, layers[1][n]))

\* The integer nearest to ((255 - a) * dst + a * src) / 255.
Nearest(dst, src, a) ==
    LET n == (255 - a) * dst + a * src
    IN  CHOOSE r \in {n \div 255, n \div 255 + 1} : 2 * (255 * r - n) \in -255..255

\* Byte k of the flattened canvas under the layers 0 .. i-1 of server srv.
RECURSIVE Flat(_, _, _)
Flat(srv, k, i) ==
    IF i = 0 THEN 255
    ELSE Nearest(Flat(srv, k, i - 1), layers[srv][i - 1][k],
                 layers[srv][i - 1][k - (k % 4) + 3])

\* C24: fetching the canvas changes no layer and no snapshot cache, and every
\* R, G and B byte of the answer is the alpha blend folded over the layers in
\* the order of their index, from 255; where every layer is transparent the
\* answer is white, and a pixel of the top layer with alpha 0 leaves what the
\* layers under it give.
C24_Flatten ==
    [][\A srv \in Servers :
         (last'.op = "canvas" /\ last'.server = srv) =>
            LET out == last'.image.img.data
                top == config[srv].layerCount
            IN  /\ layers' = layers
                /\ pngCache' = pngCache
                /\ last'.image.img.width = config[srv].canvasWidth
                /\ last'.image.img.height = config[srv].canvasHeight
                /\ DOMAIN out = DOMAIN layers[srv][0]
                /\ \A k \in DOMAIN out :
                     k % 4 # 3 =>
                        /\ out[k] = Flat(srv, k, top)
                        /\ (\A n \in DOMAIN layers[srv] :
                               layers[srv][n][k - (k % 4) + 3] = 0) => out[k] = 255
                        /\ layers[srv][top - 1][k - (k % 4) + 3] = 0
                              => out[k] = Flat(srv, k, top - 1)]_vars

\* The canvas has been fetched while a half transparent pixel of the upper
\* layer lies over an opaque pixel of the lower one.
C24_Witness ==
    /\ last.op = "canvas"
    /\ layers[1][0][3] = 255
    /\ layers[1][LayerCount - 1][3] = 128
    /\ last.image.img.data[0] # 255

\* The load of layer n of server srv has ended with the stored image in the
\* layer, or with the finding that nothing is stored.
Settled(srv, n) ==
    \/ /\ boot[srv].load[n] = "loaded"
       /\ store[StoreOf(World, srv)][n] # NoBuffer
       /\ layers[srv][n] = store[StoreOf(World, srv)][n].img.data
    \/ /\ boot[srv].load[n] = "absent"
       /\ config[srv].dataMode # "None" => store[StoreOf(World, srv)][n] = NoBuffer

\* C23: the server that starts emits 'ready' at the step that settles its last
\* layer and not before: when it has been emitted every layer is loaded or
\* known to have no snapshot, until then `count` is the number of layers that
\* are not; and it is emitted once at most.
C23_ReadyAfterLoads ==
    /\ boot[1].ready <= 1
    /\ boot[1].ready = 1
          => /\ boot[1].count = 0
             /\ \A n \in DOMAIN boot[1].load : Settled(1, n)
    /\ boot[1].ready = 0
          => boot[1].count =
                Cardinality({n \in DOMAIN boot[1].load :
                                boot[1].load[n] \notin {"loaded", "absent"}})

\* Server 1 has emitted 'ready' at the end of the parse of a stored image,
\* after it had found another layer to have none.
C23_Witness ==
    /\ last.op = "load"
    /\ last.server = 1
    /\ boot[1].ready = 1
    /\ \E n \in DOMAIN boot[1].load : boot[1].load[n] = "absent"
    /\ \E n \in DOMAIN boot[1].load : boot[1].load[n] = "loaded"

\* C28: whatever the store holds for each layer and whatever the reads give,
\* server 1 emits 'ready' in the end; and a layer whose stored image has
\* another size than the canvas stays blank.
C28_ReadyEventually ==
    /\ <>(boot[1].ready = 1)
    /\ [](\A n \in DOMAIN boot[1].load :
             boot[1].load[n] = "discarded"
                => layers[1][n] = BlankData(config[1].canvasWidth, config[1].canvasHeight))

\* C31: when an accepted chat of a local client carries a time, the event
\* handed to the sockets of its server and the frame published to the peers
\* both carry that time, and the server that receives the frame hands on the
\* time of the frame; the time of the server is attached only to a chat that
\* came without one.
C31_ChatTimeKept ==
    [][/\ (/\ last'.op = "chat"
           /\ ~ChatBroken(last'.input)
           /\ last'.client # Null)
          => LET given == last'.input.time
                 want == IF given.by = "client" THEN given ELSE ServerTime
             IN  /\ \A i \in DOMAIN sent' : sent'[i].ev = "chat" => sent'[i].body.time = want
                 /\ \A i \in DOMAIN pub' :
                       pub'[i].type = "chat" => pub'[i].data.body.time = want
       /\ (/\ last'.op = "frame"
           /\ last'.frame.type = "chat"
           /\ last'.frame.server # last'.server)
          => \A i \in DOMAIN sent' :
                sent'[i].ev = "chat" => sent'[i].body.time = last'.frame.data.body.time]_vars

====
